---- MODULE Spec2Model ----
(***************************************************************************)
(* ScannerEngine (src/core/scanner_engine.py) with the collaborators it    *)
(* drives: the bank store it reads, the manager / AudioEngine it starts    *)
(* and stops, the audio tap that calls back into _on_audio from the        *)
(* pipeline thread, and the UI thread that calls start() and stop().       *)
(*                                                                         *)
(* Time advances in steps of one second; armed_until is kept as the number *)
(* of seconds left to the deadline and a waiting worker keeps the seconds   *)
(* elapsed since t0.  Frequencies are small naturals                        *)
(* (one unit = one channel step); a recording path is <<f>> for the        *)
(* frequency it was armed at, None is <<>> and str(None) is <<0>>.         *)
(***************************************************************************)
EXTENDS Integers, Sequences, FiniteSets, TLC

\* ---- bounds of the model ------------------------------------------------
WaitCap == 1
MaxVisits == 4
RingCap == 3
MaxPipes == 2
MaxBuilds == 2
MaxBlock == 3
MaxTunes == 2
QueueCap == 2

\* ---- program constants --------------------------------------------------
SquelchDb == -55
GraceTenths == 8

None == << >>
StrNone == << 0 >>
Levels == {-90, SquelchDb, -40}
HoldChoices == {0, 1}
KindFilters == {"ALL", "FREQ", "RANGE"}

StoreChoices ==
  { [freq  |-> << [active |-> TRUE, items |-> <<1, 2>>] >>,
     range |-> << >>],
    [freq  |-> << [active |-> FALSE, items |-> <<3>>],
                  [active |-> TRUE, items |-> <<1>>] >>,
     range |-> << [active |-> FALSE, start |-> 8, stop |-> 9, step |-> 1],
                  [active |-> TRUE, start |-> 4, stop |-> 7, step |-> 2] >>],
    [freq  |-> << [active |-> FALSE, items |-> <<3>>] >>,
     range |-> << >>] }

VARIABLES
  store,        \* BanksStore.data: freq_banks / range_banks
  loopForever,  \* scan_settings["loop"]
  holdSec,      \* scan_settings["hold_seconds"]
  mgrHasTap,    \* the manager object exposes set_on_audio
  quiet,        \* no signal on the band: every level is below the squelch
  is_running, stop_evt, kind_filter,
  rec,          \* self._rec: None or the path of the open WavRecorder
  armed, armed_path, armed_until, rec_done,
  w,            \* the scan worker threads: the one of the latest start()
                \* and one of an earlier start() that outlived stop()
  ui,           \* UI thread: "idle" or inside stop()
  tap,          \* AudioEngine._on_audio is the scanner's callback
  audioOn,      \* AudioEngine.stream is a running pipeline
  streamTap,    \* the running pipeline was built with the scanner's callback
  drain,        \* a stopped pipeline may still deliver one block
  tpc,          \* the pipeline thread inside ScannerEngine._on_audio
  files         \* paths at which a file was created since the last arm

\* IQRingBuffer (src/core/dsp/iq_buffer.py and src/drivers/hackrf_driver.py)
VARIABLES
  impl,         \* which of the two copies of the class: "core" or "driver"
  buf, wpos,    \* self.buf, self.wpos
  lock,         \* self.lock: "free", or "w" while push holds it
  pw,           \* the capture callback inside push()
  rd,           \* the consumers inside latest()
  ret,          \* the latest() call that has just returned: its n and its
                \* result, forgotten at the next step
  hist          \* the samples pushed so far (the last RingCap of them)

ringVars == <<impl, buf, wpos, lock, pw, rd, ret, hist>>

\* AudioEngine (src/core/audio_engine.py) and the pipelines it creates
VARIABLES
  eng,          \* AudioEngine: stream, _on_audio, current_mode, iq_queue,
                \* pending_params
  pipes,        \* the AMStream / SSBStream objects created so far
  runs,         \* the thread started for each pipeline to call start()
  caller        \* the thread inside AudioEngine.start / stop / set_mode

engVars == <<eng, pipes, runs, caller>>

\* a demodulator pipeline on its own (src/core/dsp): its parameters and filters
VARIABLES
  dm,           \* the pipeline: kind, attributes, filter coefficients, tails
  last          \* the last call made on it

dspVars == <<dm, last>>

\* BanksStore (src/core/banks_store.py) on its own
VARIABLES
  bank_data,    \* self.data: the list of banks of each kind
  bank_file,    \* what save() wrote last
  bank_call     \* the last call and whether it raised

bankVars == <<bank_data, bank_file, bank_call>>

\* the filter functions of src/core/dsp/wbfm.py
VARIABLES
  fir,          \* one input filtered whole and in two blocks by fir_stream
  lp            \* the last call of fir_lowpass and what it returned

firVars == <<fir, lp>>

\* ScanEngine (src/core/scan_engine.py)
VARIABLES
  se,           \* the ScanEngine object and its ScanConfig
  se_obs        \* the last call made on it, and the time since a level at or
                \* above the squelch was last measured
seVars == <<se, se_obs>>

\* the radio's byte queue and the pipelines that read it
\* (src/drivers/hackrf_driver.py, src/core/dsp/am.py, src/core/dsp/ssb.py)
VARIABLES
  tunes,        \* how many times the radio has been tuned by AudioEngine.start
  byte_q,       \* HackRFDriver._audio_bytes_q: for each chunk, the tune it
                \* was captured after
  strm,         \* the AMStream / SSBStream objects made so far
  cur           \* AudioEngine.stream: 0 for None
rxVars == <<tunes, byte_q, strm, cur>>

\* what no step of the scanner touches: its configuration and the other
\* components
cfgVars ==
  <<store, loopForever, holdSec, mgrHasTap, quiet, ringVars, engVars, dspVars,
    bankVars, firVars, seVars, rxVars>>
recVars == <<rec, armed, armed_path, armed_until, rec_done>>
audioVars == <<tap, audioOn, streamTap, drain>>
tapVars == <<tpc>>
uiVars == <<ui>>
scanVars == <<store, loopForever, holdSec, mgrHasTap, quiet, is_running,
              stop_evt, kind_filter, rec, armed, armed_path, armed_until,
              rec_done, w, ui, tap, audioOn, streamTap, drain, tpc, files>>

vars ==
  <<scanVars, ringVars, engVars, dspVars, bankVars, firVars, seVars, rxVars>>

Workers == {1, 2}

\* ---- helpers --------------------------------------------------------------

\* variant: the active flag of a bank is not looked at
ActiveBanks_all(banks) == banks

\* [b for b in self.store.list_banks(kind) if b.get("active")]
ActiveBanks(banks) == SelectSeq(banks, LAMBDA b : b.active)

_active_freq_banks == ActiveBanks(store.freq)

_active_range_banks == ActiveBanks(store.range)

\* a thread that has not been created yet
NoWorker ==
  [pc |-> "none", fb |-> << >>, rb |-> << >>, bi |-> 0, ii |-> 0, f |-> 0,
   kind |-> "", did_any |-> FALSE, level |-> 0, waited |-> 0,
   visits |-> << >>, passv |-> << >>, filt0 |-> "", filt |-> "",
   clean |-> TRUE, tuneOk |-> FALSE, hArm |-> FALSE, hReq |-> FALSE,
   fail |-> "", why |-> ""]

Live(r) == r.pc \notin {"none", "done", "crashed"}

Cap(s, x) == IF Len(s) < MaxVisits THEN Append(s, x) ELSE s

\* self._stop_recording()
_stop_recording ==
  /\ armed' = FALSE
  /\ armed_path' = None
  /\ armed_until' = 0
  /\ rec' = None

\* manager.stop_audio() -> AudioEngine.stop(): the pipeline is told to stop;
\* its thread may be past its loop test and deliver one more block
stop_audio ==
  /\ audioOn' = FALSE
  /\ streamTap' = FALSE
  /\ drain' = (drain \/ (audioOn /\ streamTap))

SetW(i, r) == w' = [w EXCEPT ![i] = r]

\* ---- scan worker: ScannerEngine._loop -----------------------------------

\* lines 212-218: read settings, then manager.set_on_audio(self._on_audio)
\* before the try block; a manager without that method raises AttributeError
\* and the thread dies without running the finally block
loop_enter(i) ==
  /\ w[i].pc = "w_start"
  /\ IF mgrHasTap
       THEN /\ tap' = TRUE
            /\ SetW(i, [w[i] EXCEPT !.pc = "w_pass"])
       ELSE /\ tap' = tap
            /\ SetW(i, [w[i] EXCEPT !.pc = "crashed", !.why = "exc"])
  /\ UNCHANGED <<cfgVars, is_running, stop_evt, kind_filter, recVars, uiVars,
                 audioOn, streamTap, drain, tapVars, files>>

\* lines 223-230: while not stop: snapshot the active banks for this pass
loop_pass(i) ==
  /\ w[i].pc = "w_pass"
  /\ LET r == w[i]
         br == IF kind_filter \in {"ALL", "RANGE"}
                 THEN _active_range_banks ELSE << >>
         bf == IF kind_filter \in {"ALL", "FREQ"}
                 THEN _active_freq_banks ELSE << >>
     IN IF stop_evt
          THEN SetW(i, [r EXCEPT !.pc = "w_finally", !.why = "stop"])
          ELSE IF br = << >> /\ bf = << >>
            THEN SetW(i, [r EXCEPT !.pc = "w_finally", !.why = "nobanks",
                                   !.filt = kind_filter,
                                   !.filt0 = IF r.filt0 = ""
                                               THEN kind_filter ELSE r.filt0])
            ELSE SetW(i, [r EXCEPT !.pc = "w_fbank", !.fb = bf, !.rb = br,
                                   !.bi = 1, !.did_any = FALSE,
                                   !.passv = << >>, !.filt = kind_filter,
                                   !.filt0 = IF r.filt0 = ""
                                               THEN kind_filter ELSE r.filt0,
                                   !.clean = r.clean /\
                                      (r.filt0 \in {"", kind_filter})])
  /\ UNCHANGED <<cfgVars, is_running, stop_evt, kind_filter, recVars, uiVars,
                 audioVars, tapVars, files>>

\* lines 233-240: for bank in banks_freq
loop_freq_bank(i) ==
  /\ w[i].pc = "w_fbank"
  /\ LET r == w[i]
     IN IF r.bi > Len(r.fb)
          THEN SetW(i, [r EXCEPT !.pc = "w_rbank", !.bi = 1])
          ELSE IF stop_evt
            THEN SetW(i, [r EXCEPT !.pc = "w_rbank", !.bi = 1,
                                   !.clean = FALSE])
            ELSE SetW(i, [r EXCEPT !.pc = "w_fitem", !.did_any = TRUE,
                                   !.ii = 1])
  /\ UNCHANGED <<cfgVars, is_running, stop_evt, kind_filter, recVars, uiVars,
                 audioVars, tapVars, files>>

\* lines 241-246: for it in items
loop_freq_item(i) ==
  /\ w[i].pc = "w_fitem"
  /\ LET r == w[i]
         items == r.fb[r.bi].items
     IN IF r.ii > Len(items)
          THEN SetW(i, [r EXCEPT !.pc = "w_fbank", !.bi = r.bi + 1])
          ELSE IF stop_evt
            THEN SetW(i, [r EXCEPT !.pc = "w_fbank", !.bi = r.bi + 1,
                                   !.clean = FALSE])
            ELSE SetW(i, [r EXCEPT !.pc = "w_tune", !.kind = "freq",
                                   !.f = items[r.ii]])
  /\ UNCHANGED <<cfgVars, is_running, stop_evt, kind_filter, recVars, uiVars,
                 audioVars, tapVars, files>>

\* lines 249-273: for bank in banks_range (set_rf_gain failures are swallowed)
loop_range_bank(i) ==
  /\ w[i].pc = "w_rbank"
  /\ LET r == w[i]
     IN IF r.bi > Len(r.rb)
          THEN SetW(i, [r EXCEPT !.pc = "w_endpass"])
          ELSE IF stop_evt
            THEN SetW(i, [r EXCEPT !.pc = "w_endpass", !.clean = FALSE])
            ELSE SetW(i, [r EXCEPT !.pc = "w_rstep", !.did_any = TRUE,
                                   !.f = r.rb[r.bi].start])
  /\ UNCHANGED <<cfgVars, is_running, stop_evt, kind_filter, recVars, uiVars,
                 audioVars, tapVars, files>>

\* lines 274-276: while f <= stop and not stop_evt
loop_range_step(i) ==
  /\ w[i].pc = "w_rstep"
  /\ LET r == w[i]
     IN IF r.f <= r.rb[r.bi].stop /\ ~stop_evt
          THEN SetW(i, [r EXCEPT !.pc = "w_tune", !.kind = "range"])
          ELSE SetW(i, [r EXCEPT !.pc = "w_rbank", !.bi = r.bi + 1,
                                 !.clean = r.clean /\
                                           ~(r.f <= r.rb[r.bi].stop)])
  /\ UNCHANGED <<cfgVars, is_running, stop_evt, kind_filter, recVars, uiVars,
                 audioVars, tapVars, files>>

\* variant: a new pass resumes at the second item of the first bank
loop_end_pass_resume(i) ==
  /\ w[i].pc = "w_endpass"
  /\ LET r == w[i]
     IN IF ~loopForever \/ ~r.did_any
          THEN SetW(i, [r EXCEPT !.pc = "w_finally", !.why = "endpass"])
          ELSE IF r.fb # << >>
            THEN SetW(i, [r EXCEPT !.pc = "w_fitem", !.bi = 1, !.ii = 2])
            ELSE SetW(i, [r EXCEPT !.pc = "w_pass"])
  /\ UNCHANGED <<cfgVars, is_running, stop_evt, kind_filter, recVars, uiVars,
                 audioVars, tapVars, files>>

\* lines 278-279: if not loop_forever or not did_any: break
loop_end_pass(i) ==
  /\ w[i].pc = "w_endpass"
  /\ LET r == w[i]
     IN IF ~loopForever \/ ~r.did_any
          THEN SetW(i, [r EXCEPT !.pc = "w_finally", !.why = "endpass"])
          ELSE SetW(i, [r EXCEPT !.pc = "w_pass"])
  /\ UNCHANGED <<cfgVars, is_running, stop_evt, kind_filter, recVars, uiVars,
                 audioVars, tapVars, files>>

\* lines 281-291: the finally block
loop_finally(i) ==
  /\ w[i].pc = "w_finally"
  /\ _stop_recording
  /\ stop_audio
  /\ tap' = (IF mgrHasTap THEN FALSE ELSE tap)
  /\ is_running' = FALSE
  /\ SetW(i, [w[i] EXCEPT !.pc = "done"])
  /\ UNCHANGED <<cfgVars, stop_evt, kind_filter, rec_done, uiVars, tapVars, files>>

\* return from _scan_single_freq to the loop that called it
scan_return(i) ==
  /\ w[i].pc = "w_ret"
  /\ LET r == w[i]
         base == [r EXCEPT !.level = 0, !.tuneOk = FALSE, !.hArm = FALSE,
                           !.hReq = FALSE, !.fail = "", !.waited = 0, !.why = ""]
     IN IF r.kind = "freq"
          THEN SetW(i, [base EXCEPT !.pc = "w_fitem", !.ii = r.ii + 1])
          ELSE SetW(i, [base EXCEPT !.pc = "w_rstep",
                                    !.f = r.f + r.rb[r.bi].step])
  /\ UNCHANGED <<cfgVars, is_running, stop_evt, kind_filter, recVars, uiVars,
                 audioVars, tapVars, files>>

\* ---- scan worker: ScannerEngine._scan_single_freq -------------------------

\* variant: a tune that raises is not caught and unwinds the loop
scan_tune_fatal(i) ==
  /\ w[i].pc = "w_tune"
  /\ \E ok \in BOOLEAN :
       LET r == [w[i] EXCEPT !.visits = Cap(w[i].visits, w[i].f),
                             !.passv = Cap(w[i].passv, w[i].f)]
       IN IF ok
            THEN SetW(i, [r EXCEPT !.pc = "w_level", !.tuneOk = TRUE])
            ELSE SetW(i, [r EXCEPT !.pc = "w_finally", !.fail = "tune",
                                   !.why = "exc"])
  /\ UNCHANGED <<cfgVars, is_running, stop_evt, kind_filter, recVars, uiVars,
                 audioVars, tapVars, files>>

\* lines 297-308: connect (failure swallowed), then set_center_freq; if the
\* tune raises the frequency is given up
scan_tune(i) ==
  /\ w[i].pc = "w_tune"
  /\ \E ok \in BOOLEAN :
       LET r == [w[i] EXCEPT !.visits = Cap(w[i].visits, w[i].f),
                             !.passv = Cap(w[i].passv, w[i].f)]
       IN IF ok
            THEN SetW(i, [r EXCEPT !.pc = "w_level", !.tuneOk = TRUE])
            ELSE SetW(i, [r EXCEPT !.pc = "w_ret", !.fail = "tune"])
  /\ UNCHANGED <<cfgVars, is_running, stop_evt, kind_filter, recVars, uiVars,
                 audioVars, tapVars, files>>

\* self._level_db(tuned_hz): what the S-meter or the spectrum peak can read
_level_db == IF quiet THEN {lv \in Levels : lv < SquelchDb} ELSE Levels

\* variant: the squelch test written with <= instead of <
scan_level_strict(i) ==
  /\ w[i].pc = "w_level"
  /\ \E lv \in _level_db :
       IF lv <= SquelchDb
         THEN SetW(i, [w[i] EXCEPT !.pc = "w_ret", !.level = lv])
         ELSE SetW(i, [w[i] EXCEPT !.pc = "w_arm", !.level = lv])
  /\ UNCHANGED <<cfgVars, is_running, stop_evt, kind_filter, recVars, uiVars,
                 audioVars, tapVars, files>>

\* lines 310-319: settle, measure the level, emit the SCAN status, and
\* return when the level is below the squelch
scan_level(i) ==
  /\ w[i].pc = "w_level"
  /\ \E lv \in _level_db :
       IF lv < SquelchDb
         THEN SetW(i, [w[i] EXCEPT !.pc = "w_ret", !.level = lv])
         ELSE SetW(i, [w[i] EXCEPT !.pc = "w_arm", !.level = lv])
  /\ UNCHANGED <<cfgVars, is_running, stop_evt, kind_filter, recVars, uiVars,
                 audioVars, tapVars, files>>

\* variant: arming creates the recorder at once
_arm_recording_eager(path) ==
  /\ rec' = path
  /\ armed' = TRUE
  /\ armed_path' = path
  /\ armed_until' = holdSec
  /\ rec_done' = FALSE

\* self._arm_recording(folder, fname, hold_seconds), lines 128-136
_arm_recording(path) ==
  /\ rec' = None
  /\ armed' = TRUE
  /\ armed_path' = path
  /\ armed_until' = holdSec
  /\ rec_done' = FALSE

\* lines 321-328
scan_arm(i) ==
  /\ w[i].pc = "w_arm"
  /\ _arm_recording(<< w[i].f >>)
  /\ files' = {}
  /\ SetW(i, [w[i] EXCEPT !.pc = "w_audio", !.hArm = TRUE])
  /\ UNCHANGED <<cfgVars, is_running, stop_evt, kind_filter, uiVars,
                 audioVars, tapVars>>

\* lines 330-339: manager.start_audio(driver, f, mode).  AudioEngine.start
\* stops the current pipeline first; it may raise before that (bad call) or
\* after it (unsupported mode, driver without get_audio_queue)
scan_start_audio(i) ==
  /\ w[i].pc = "w_audio"
  /\ \E res \in {"ok", "raise_before_stop", "raise_after_stop"} :
       IF res = "ok"
         THEN /\ audioOn' = TRUE
              /\ streamTap' = tap
              /\ drain' = (drain \/ (audioOn /\ streamTap))
              /\ SetW(i, [w[i] EXCEPT !.pc = "w_wait", !.hReq = TRUE,
                                      !.waited = 0])
              /\ UNCHANGED recVars
         ELSE /\ IF res = "raise_after_stop"
                   THEN stop_audio
                   ELSE UNCHANGED <<audioOn, streamTap, drain>>
              /\ _stop_recording
              /\ UNCHANGED rec_done
              /\ SetW(i, [w[i] EXCEPT !.pc = "w_ret", !.hReq = TRUE,
                                      !.fail = "start_audio"])
  /\ UNCHANGED <<cfgVars, is_running, stop_evt, kind_filter, uiVars, tap,
                 tapVars, files>>

GraceOver(r) == r.waited * 10 > GraceTenths

\* variant: the grace timeout leaves the wait loop without disarming
scan_wait_keep_arm(i) ==
  /\ w[i].pc = "w_wait"
  /\ IF stop_evt \/ rec_done
       THEN SetW(i, [w[i] EXCEPT !.pc = "w_stopaudio",
                           !.why = IF stop_evt THEN "stop" ELSE "rec_done"])
       ELSE /\ rec = None /\ armed /\ GraceOver(w[i])
            /\ SetW(i, [w[i] EXCEPT !.pc = "w_stopaudio", !.why = "grace"])
  /\ UNCHANGED <<cfgVars, is_running, stop_evt, kind_filter, recVars, uiVars,
                 audioVars, tapVars, files>>

\* variant: the wait loop does not look at the stop event
scan_wait_ignore_stop(i) ==
  /\ w[i].pc = "w_wait"
  /\ IF rec_done
       THEN /\ SetW(i, [w[i] EXCEPT !.pc = "w_stopaudio", !.why = "rec_done"])
            /\ UNCHANGED recVars
       ELSE /\ rec = None /\ armed /\ GraceOver(w[i])
            /\ _stop_recording
            /\ UNCHANGED rec_done
            /\ SetW(i, [w[i] EXCEPT !.pc = "w_stopaudio", !.why = "grace"])
  /\ UNCHANGED <<cfgVars, is_running, stop_evt, kind_filter, uiVars,
                 audioVars, tapVars, files>>

\* lines 341-350: one iteration of the wait loop that leaves it
scan_wait(i) ==
  /\ w[i].pc = "w_wait"
  /\ IF stop_evt \/ rec_done
       THEN /\ SetW(i, [w[i] EXCEPT !.pc = "w_stopaudio",
                           !.why = IF stop_evt THEN "stop" ELSE "rec_done"])
            /\ UNCHANGED recVars
       ELSE /\ rec = None /\ armed /\ GraceOver(w[i])
            /\ _stop_recording
            /\ UNCHANGED rec_done
            /\ SetW(i, [w[i] EXCEPT !.pc = "w_stopaudio", !.why = "grace"])
  /\ UNCHANGED <<cfgVars, is_running, stop_evt, kind_filter, uiVars,
                 audioVars, tapVars, files>>

\* lines 352-356
scan_stop_audio(i) ==
  /\ w[i].pc = "w_stopaudio"
  /\ stop_audio
  /\ SetW(i, [w[i] EXCEPT !.pc = "w_ret"])
  /\ UNCHANGED <<cfgVars, is_running, stop_evt, kind_filter, recVars, uiVars,
                 tap, tapVars, files>>

\* ---- pipeline thread: ScannerEngine._on_audio -----------------------------

\* a block is delivered; lines 97-103
on_audio_enter ==
  /\ tpc = "idle"
  /\ \E late \in BOOLEAN :
       /\ IF late THEN drain ELSE audioOn /\ streamTap
       /\ drain' = (drain /\ ~late)
  /\ IF rec = None /\ ~armed
       THEN UNCHANGED tpc
       ELSE /\ tpc' = IF rec = None /\ armed THEN "t_open" ELSE "t_write"
  /\ UNCHANGED <<cfgVars, is_running, stop_evt, kind_filter, recVars, w,
                 uiVars, tap, audioOn, streamTap, files>>

Str(path) == IF path = None THEN StrNone ELSE path

\* lines 104-112: WavRecorder(str(self._armed_path)).start()
on_audio_open ==
  /\ tpc = "t_open"
  /\ \E ok \in BOOLEAN :
       IF ok
         THEN /\ rec' = Str(armed_path)
              /\ files' = files \cup {Str(armed_path)}
              /\ tpc' = "t_write"
              /\ UNCHANGED <<armed, armed_path, armed_until, rec_done>>
         ELSE /\ armed' = FALSE
              /\ armed_path' = None
              /\ rec' = None
              /\ rec_done' = TRUE
              /\ tpc' = "idle"
              /\ UNCHANGED <<armed_until, files>>
  /\ UNCHANGED <<cfgVars, is_running, stop_evt, kind_filter, w, uiVars,
                 audioVars>>

\* lines 114-120: self._rec.write_float32(block); self._rec may have been
\* set to None by another thread, which raises inside the try as well
on_audio_write ==
  /\ tpc = "t_write"
  /\ \E ok \in BOOLEAN :
       IF ok /\ rec # None
         THEN /\ tpc' = "t_deadline"
              /\ UNCHANGED recVars
         ELSE /\ _stop_recording
              /\ rec_done' = TRUE
              /\ tpc' = "idle"
  /\ UNCHANGED <<cfgVars, is_running, stop_evt, kind_filter, w, uiVars,
                 audioVars, files>>

\* lines 122-125
on_audio_deadline ==
  /\ tpc = "t_deadline"
  /\ IF armed_until <= 0
       THEN /\ _stop_recording
            /\ rec_done' = TRUE
       ELSE UNCHANGED recVars
  /\ tpc' = "idle"
  /\ UNCHANGED <<cfgVars, is_running, stop_evt, kind_filter, w, uiVars,
                 audioVars, files>>

\* ---- UI thread ------------------------------------------------------------

\* the slot the new thread object takes
FreeSlot == CHOOSE i \in Workers :
              /\ ~Live(w[i])
              /\ \A j \in Workers : ~Live(w[j]) => i <= j

\* ScannerEngine.start(driver, kind_filter, on_status), lines 61-71
start(kf) ==
  /\ ui = "idle"
  /\ ~is_running
  /\ \E i \in Workers : ~Live(w[i])
  /\ kind_filter' = kf
  /\ stop_evt' = FALSE
  /\ is_running' = TRUE
  /\ SetW(FreeSlot, [NoWorker EXCEPT !.pc = "w_start"])
  /\ UNCHANGED <<cfgVars, recVars, audioVars, tapVars, ui, files>>

\* start() called when the thread of the previous start() has ended
start_joined(kf) ==
  /\ \A i \in Workers : ~Live(w[i])
  /\ start(kf)

\* ScannerEngine.stop(), lines 74-75
stop_signal ==
  /\ ui = "idle"
  /\ stop_evt' = TRUE
  /\ is_running' = FALSE
  /\ ui' = "stopping"
  /\ UNCHANGED <<cfgVars, recVars, audioVars, tapVars, kind_filter, w, files>>

\* ScannerEngine.stop(), lines 77-93: the join has a timeout, so stop()
\* returns whether or not the worker has finished
stop_finish ==
  /\ ui = "stopping"
  /\ _stop_recording
  /\ stop_audio
  /\ tap' = (IF mgrHasTap THEN FALSE ELSE tap)
  /\ ui' = "idle"
  /\ UNCHANGED <<cfgVars, is_running, stop_evt, kind_filter, rec_done, w,
                 tapVars, files>>

\* ---- IQRingBuffer ------------------------------------------------------------

Samples == {1, 2}
Readers == {1, 2}

Zeros(n) == [k \in 1..n |-> 0]

\* s[a:b] of a numpy array, 0 <= a, b <= len(s)
Slice(s, a, b) == SubSeq(s, a + 1, b)

\* s with s[a:a+len(x)] = x
Store(s, a, x) ==
  [k \in 1..Len(s) |-> IF k > a /\ k <= a + Len(x) THEN x[k - a] ELSE s[k]]

\* the last k elements of s, all of s when it is shorter
LastK(s, k) == IF Len(s) <= k THEN s ELSE SubSeq(s, Len(s) - k + 1, Len(s))

PushInputs == UNION {[1..k -> Samples] : k \in 0..(RingCap + 1)}
LatestInputs == (0 - 1)..(RingCap + 1)

IdleReader == [pc |-> "idle", req |-> 0, n |-> 0]

NoReturn == [by |-> 0, req |-> 0, out |-> << >>]

\* __init__, lines 5-9
RingInit ==
  /\ buf = Zeros(RingCap)
  /\ wpos = 0
  /\ lock = "free"
  /\ pw = [pc |-> "idle", iq |-> << >>]
  /\ rd = [r \in Readers |-> IdleReader]
  /\ ret = NoReturn
  /\ hist = << >>

\* push, lines 12-18: nothing to do for an empty block; a block of capacity
\* or more samples is cut to its last capacity samples
push_call(iq) ==
  /\ pw.pc = "idle"
  /\ IF Len(iq) <= 0
       THEN UNCHANGED pw
       ELSE pw' = [pc |-> "p_lock",
                   iq |-> IF Len(iq) >= RingCap THEN LastK(iq, RingCap) ELSE iq]
  /\ ret' = NoReturn
  /\ UNCHANGED <<scanVars, firVars, seVars, rxVars, bankVars, engVars, dspVars, impl, buf, wpos, lock, rd, hist>>

\* line 20: with self.lock
push_acquire ==
  /\ pw.pc = "p_lock"
  /\ lock = "free"
  /\ lock' = "w"
  /\ pw' = [pw EXCEPT !.pc = "p_write"]
  /\ ret' = NoReturn
  /\ UNCHANGED <<scanVars, firVars, seVars, rxVars, bankVars, engVars, dspVars, impl, buf, wpos, rd, hist>>

\* lines 21-26: the block in one piece, or its first part up to the end of
\* the array
push_write ==
  /\ pw.pc = "p_write"
  /\ LET end == wpos + Len(pw.iq)
         k == RingCap - wpos
     IN IF end <= RingCap
          THEN /\ buf' = Store(buf, wpos, pw.iq)
               /\ pw' = [pw EXCEPT !.pc = "p_commit"]
          ELSE /\ buf' = Store(buf, wpos, Slice(pw.iq, 0, k))
               /\ pw' = [pw EXCEPT !.pc = "p_wrap"]
  /\ ret' = NoReturn
  /\ UNCHANGED <<scanVars, firVars, seVars, rxVars, bankVars, engVars, dspVars, impl, wpos, lock, rd, hist>>

\* line 27: the rest of the block at the start of the array
push_wrap ==
  /\ pw.pc = "p_wrap"
  /\ LET k == RingCap - wpos
     IN buf' = Store(buf, 0, Slice(pw.iq, k, Len(pw.iq)))
  /\ pw' = [pw EXCEPT !.pc = "p_commit"]
  /\ ret' = NoReturn
  /\ UNCHANGED <<scanVars, firVars, seVars, rxVars, bankVars, engVars, dspVars, impl, wpos, lock, rd, hist>>

\* line 28 and the end of the with block
push_commit ==
  /\ pw.pc = "p_commit"
  /\ wpos' = (wpos + Len(pw.iq)) % RingCap
  /\ lock' = "free"
  /\ hist' = LastK(hist \o pw.iq, RingCap)
  /\ pw' = [pc |-> "idle", iq |-> << >>]
  /\ ret' = NoReturn
  /\ UNCHANGED <<scanVars, firVars, seVars, rxVars, bankVars, engVars, dspVars, impl, buf, rd>>

\* latest, line 31: n = min(int(n), self.capacity); the copy of the class in
\* hackrf_driver.py (lines 141-143) returns an empty array when n <= 0, the
\* copy in iq_buffer.py does not
latest_call(r, n) ==
  /\ rd[r].pc = "idle"
  /\ LET m == IF n < RingCap THEN n ELSE RingCap
     IN IF impl = "driver" /\ m <= 0
          THEN /\ ret' = [by |-> r, req |-> n, out |-> << >>]
               /\ UNCHANGED rd
          ELSE /\ rd' = [rd EXCEPT ![r] = [pc |-> "r_lock", req |-> n, n |-> m]]
               /\ ret' = NoReturn
  /\ UNCHANGED <<scanVars, firVars, seVars, rxVars, bankVars, engVars, dspVars, impl, buf, wpos, lock, pw, hist>>

\* lines 33-38 on the array as it is
ReadOut(n) ==
  LET end == wpos
      first == (end - n) % RingCap
  IN IF first < end
       THEN Slice(buf, first, end)
       ELSE Slice(buf, first, RingCap) \o Slice(buf, 0, end)

\* variant: the copy is taken without holding the lock
latest_read_nolock(r) ==
  /\ rd[r].pc = "r_lock"
  /\ ret' = [by |-> r, req |-> rd[r].req, out |-> ReadOut(rd[r].n)]
  /\ rd' = [rd EXCEPT ![r] = IdleReader]
  /\ UNCHANGED <<scanVars, firVars, seVars, rxVars, bankVars, engVars, dspVars, impl, buf, wpos, lock, pw, hist>>

\* variant: the branch for a window that wraps is missing
latest_read_nowrap(r) ==
  /\ rd[r].pc = "r_lock"
  /\ lock = "free"
  /\ ret' = [by |-> r, req |-> rd[r].req,
             out |-> Slice(buf, (wpos - rd[r].n) % RingCap, wpos)]
  /\ rd' = [rd EXCEPT ![r] = IdleReader]
  /\ UNCHANGED <<scanVars, firVars, seVars, rxVars, bankVars, engVars, dspVars, impl, buf, wpos, lock, pw, hist>>

\* lines 32-39: the lock is taken, the window copied, the lock released and
\* the copy returned
latest_read(r) ==
  /\ rd[r].pc = "r_lock"
  /\ lock = "free"
  /\ ret' = [by |-> r, req |-> rd[r].req, out |-> ReadOut(rd[r].n)]
  /\ rd' = [rd EXCEPT ![r] = IdleReader]
  /\ UNCHANGED <<scanVars, firVars, seVars, rxVars, bankVars, engVars, dspVars, impl, buf, wpos, lock, pw, hist>>

\* ---- AudioEngine ----------------------------------------------------------------

PipeIds == 1..MaxPipes
Modes == {"AM", "USB", "NFM"}
Callbacks == {0, 1}
UserDrive == 20
AltDrive == 15
PresetDrive == 12

\* volumes in tenths: self.volume of the engine (audio_engine.py line 35) and
\* of a new pipeline (am.py line 42, ssb.py line 50)
EngineVolume == 8
PipeVolume == 10

\* _create_stream, lines 47-81: AMStream and SSBStream are built; WBFMStream
\* (wbfm.py line 123) takes freq_mhz only, so building it or NBFMStream with
\* iq_bytes_queue and on_audio raises TypeError
Constructible(mode) == mode \in {"AM", "USB"}

\* self.drive as set by __init__: am.py line 39, ssb.py line 47
DefaultDrive(mode) == IF mode = "AM" THEN 10 ELSE 12

NoPipe ==
  [made |-> FALSE, running |-> FALSE, cb |-> 0, drive |-> 0, vol |-> 0,
   loop |-> "none"]

NoParams == [drive |-> 0, chan |-> FALSE]

\* the keyword arguments update_dsp_params is called with: drive, which both
\* pipelines take, or chan_cutoff_hz, which neither does
ParamInputs == {[drive |-> UserDrive, chan |-> FALSE],
                [drive |-> 0, chan |-> TRUE]}

\* the same with a second value for drive
TuneInputs == ParamInputs \cup {[drive |-> AltDrive, chan |-> FALSE]}

\* the arguments of set_volume: below, inside and above [0, 1]
VolumeInputs == {0 - 5, 5, 15}

\* max(0.0, min(1.0, float(v))): audio_engine.py line 239, am.py line 75
Clamp(v) == IF v < 0 THEN 0 ELSE IF v > 10 THEN 10 ELSE v

IdleCaller ==
  [pc |-> "idle", op |-> "", mode |-> "", old |-> 0, params |-> NoParams]

\* AudioEngine.__init__, lines 24-35
EngineInit ==
  /\ eng = [stream |-> 0, cb |-> 0, mode |-> "", q |-> FALSE,
            pending |-> NoParams, vol |-> EngineVolume]
  /\ pipes = [p \in PipeIds |-> NoPipe]
  /\ runs = [p \in PipeIds |-> "none"]
  /\ caller = IdleCaller

Made == {p \in PipeIds : pipes[p].made}

NewPipe == Cardinality(Made) + 1

\* stream.update_params(**params) of AMStream (am.py line 77) and SSBStream
\* (ssb.py line 85): a keyword they do not name raises TypeError
ParamsRaise(params) == params.chan

\* AudioEngine.stop, lines 172-179: st = self.stream; st.stop()
StopBegin ==
  pipes' = IF eng.stream # 0
             THEN [pipes EXCEPT ![eng.stream].running = FALSE]
             ELSE pipes

\* AudioEngine.stop() called on its own
engine_stop ==
  /\ caller.pc = "idle"
  /\ StopBegin
  /\ caller' = [IdleCaller EXCEPT !.pc = "stop_end", !.op = "stop"]
  /\ UNCHANGED <<scanVars, firVars, seVars, rxVars, bankVars, ringVars, dspVars, eng, runs>>

\* AudioEngine.start(driver, freq_mhz, mode), line 87: self.stop()
engine_start(mode) ==
  /\ caller.pc = "idle"
  /\ Cardinality(Made) < MaxPipes
  /\ StopBegin
  /\ caller' = [IdleCaller EXCEPT !.pc = "stop_end", !.op = "start",
                                  !.mode = mode]
  /\ UNCHANGED <<scanVars, firVars, seVars, rxVars, bankVars, ringVars, dspVars, eng, runs>>

\* a stop that forgets to release the reference
engine_stop_end_keep ==
  /\ caller.pc = "stop_end"
  /\ caller' = IF caller.op = "start"
                 THEN [caller EXCEPT !.pc = "s_create"]
                 ELSE IdleCaller
  /\ UNCHANGED <<scanVars, firVars, seVars, rxVars, bankVars, ringVars, dspVars, eng, pipes, runs>>

\* AudioEngine.stop, lines 181-183: self.stream = None
engine_stop_end ==
  /\ caller.pc = "stop_end"
  /\ eng' = [eng EXCEPT !.stream = 0]
  /\ caller' = IF caller.op = "start"
                 THEN [caller EXCEPT !.pc = "s_create"]
                 ELSE IdleCaller
  /\ UNCHANGED <<scanVars, firVars, seVars, rxVars, bankVars, ringVars, dspVars, pipes, runs>>

\* AudioEngine.start, lines 89-137: the driver checks, which raise for a
\* missing driver or one without get_audio_queue, then _create_stream, which
\* raises for a mode it cannot build
start_create ==
  /\ caller.pc = "s_create"
  /\ \E drv \in {"ok", "none", "noqueue"} :
       IF drv # "ok"
         THEN /\ caller' = IdleCaller
              /\ UNCHANGED <<eng, pipes>>
         ELSE IF ~Constructible(caller.mode)
           THEN /\ eng' = [eng EXCEPT !.q = TRUE, !.mode = caller.mode]
                /\ caller' = IdleCaller
                /\ UNCHANGED pipes
           ELSE /\ eng' = [eng EXCEPT !.q = TRUE, !.mode = caller.mode,
                                      !.stream = NewPipe]
                /\ pipes' = [pipes EXCEPT ![NewPipe] =
                               [made |-> TRUE,
                                running |-> FALSE, cb |-> eng.cb,
                                drive |-> DefaultDrive(caller.mode),
                                vol |-> PipeVolume, loop |-> "none"]]
                /\ caller' = [caller EXCEPT !.pc = "s_launch", !.old = NewPipe]
  /\ UNCHANGED <<scanVars, firVars, seVars, rxVars, bankVars, ringVars, dspVars, runs>>

\* AudioEngine.start, lines 140-166: the preset, then the pending parameters,
\* inside one try whose except passes; then the thread that runs _run
start_launch ==
  /\ caller.pc = "s_launch"
  /\ pipes' = IF eng.stream # 0
                THEN [pipes EXCEPT ![eng.stream].drive =
                        IF eng.pending = NoParams
                             \/ ParamsRaise(eng.pending)
                             \/ eng.pending.drive = 0
                          THEN PresetDrive
                          ELSE eng.pending.drive,
                                   ![eng.stream].vol = Clamp(eng.vol)]
                ELSE pipes
  /\ runs' = [runs EXCEPT ![caller.old] = "spawned"]
  /\ caller' = IdleCaller
  /\ UNCHANGED <<scanVars, firVars, seVars, rxVars, bankVars, ringVars, dspVars, eng>>

\* AudioEngine.set_mode, lines 193-207: nothing to do for the current mode;
\* without a pipeline only the mode is noted; else the old pipeline is
\* stopped
set_mode_begin(mode) ==
  /\ caller.pc = "idle"
  /\ Cardinality(Made) < MaxPipes
  /\ mode # eng.mode
  /\ IF eng.stream = 0 \/ ~eng.q
       THEN /\ eng' = [eng EXCEPT !.mode = mode]
            /\ UNCHANGED <<pipes, caller>>
       ELSE /\ pipes' = [pipes EXCEPT ![eng.stream].running = FALSE]
            /\ caller' = [IdleCaller EXCEPT !.pc = "m_build", !.op = "set_mode",
                                            !.mode = mode, !.old = eng.stream]
            /\ UNCHANGED eng
  /\ UNCHANGED <<scanVars, firVars, seVars, rxVars, bankVars, ringVars, dspVars, runs>>

\* AudioEngine.set_mode, lines 209-233: build the new pipeline, give it the
\* pending parameters, make it current and start it in a thread of its own;
\* on any exception self.stream = old
set_mode_build ==
  /\ caller.pc = "m_build"
  /\ IF Constructible(caller.mode)
          /\ ~(eng.pending # NoParams /\ ParamsRaise(eng.pending))
       THEN /\ pipes' = [pipes EXCEPT ![NewPipe] =
                           [made |-> TRUE,
                            running |-> FALSE, cb |-> eng.cb,
                            drive |-> IF eng.pending.drive # 0
                                        THEN eng.pending.drive
                                        ELSE DefaultDrive(caller.mode),
                            vol |-> Clamp(eng.vol), loop |-> "none"]]
            /\ eng' = [eng EXCEPT !.stream = NewPipe, !.mode = caller.mode]
            /\ runs' = [runs EXCEPT ![NewPipe] = "direct"]
       ELSE /\ eng' = [eng EXCEPT !.stream = caller.old]
            /\ UNCHANGED <<pipes, runs>>
  /\ caller' = IdleCaller
  /\ UNCHANGED <<scanVars, firVars, seVars, rxVars, bankVars, ringVars, dspVars>>

\* AudioEngine.set_on_audio(cb), lines 40-42
set_on_audio(cb) ==
  /\ caller.pc = "idle"
  /\ cb # eng.cb
  /\ eng' = [eng EXCEPT !.cb = cb]
  /\ UNCHANGED <<scanVars, firVars, seVars, rxVars, bankVars, ringVars, dspVars, pipes, runs, caller>>

\* a set_volume that stores the value and does not pass it on
set_volume_local(v) ==
  /\ caller.pc = "idle"
  /\ eng' = [eng EXCEPT !.vol = Clamp(v)]
  /\ UNCHANGED <<scanVars, firVars, seVars, rxVars, bankVars, ringVars, dspVars, pipes, runs, caller>>

\* AudioEngine.set_volume(v), lines 238-245: clamp, store, and pass on to the
\* current pipeline, which clamps again
set_volume(v) ==
  /\ caller.pc = "idle"
  /\ eng' = [eng EXCEPT !.vol = Clamp(v)]
  /\ pipes' = IF eng.stream # 0
                THEN [pipes EXCEPT ![eng.stream].vol = Clamp(Clamp(v))]
                ELSE pipes
  /\ UNCHANGED <<scanVars, firVars, seVars, rxVars, bankVars, ringVars, dspVars, runs, caller>>

\* an update that replaces the pending parameters by its arguments
update_dsp_params_replace(params) ==
  /\ caller.pc = "idle"
  /\ eng' = [eng EXCEPT !.pending = params]
  /\ caller' = [IdleCaller EXCEPT !.pc = "u_forward", !.op = "update",
                                  !.params = params]
  /\ UNCHANGED <<scanVars, firVars, seVars, rxVars, bankVars, ringVars, dspVars, pipes, runs>>

\* AudioEngine.update_dsp_params(**params), lines 250-254: the arguments are
\* merged into pending_params
update_dsp_params(params) ==
  /\ caller.pc = "idle"
  /\ eng' = [eng EXCEPT !.pending =
               [drive |-> IF params.drive # 0 THEN params.drive
                                               ELSE eng.pending.drive,
                chan |-> eng.pending.chan \/ params.chan]]
  /\ caller' = [IdleCaller EXCEPT !.pc = "u_forward", !.op = "update",
                                  !.params = params]
  /\ UNCHANGED <<scanVars, firVars, seVars, rxVars, bankVars, ringVars, dspVars, pipes, runs>>

\* lines 256-261: st = self.stream; st.update_params(**params) inside a try
\* whose except passes
update_forward ==
  /\ caller.pc = "u_forward"
  /\ pipes' = IF eng.stream # 0 /\ ~ParamsRaise(caller.params)
                   /\ caller.params.drive # 0
                THEN [pipes EXCEPT ![eng.stream].drive = caller.params.drive]
                ELSE pipes
  /\ caller' = IdleCaller
  /\ UNCHANGED <<scanVars, firVars, seVars, rxVars, bankVars, ringVars, dspVars, eng, runs>>

\* stream.start() of AMStream / SSBStream (am.py lines 64-69): a pipeline
\* that is running is left alone, else it is marked running and its loop
\* thread is started.  A loop thread of that pipeline that has not yet seen
\* the stop goes on as the running one.
StreamStart(p) ==
  pipes' = IF pipes[p].running
             THEN pipes
             ELSE [pipes EXCEPT ![p].running = TRUE,
                                ![p].loop = IF pipes[p].loop \in
                                                {"none", "ended", "dead"}
                                              THEN "l_check"
                                              ELSE pipes[p].loop]

\* _run, lines 158-160: self.stream.start(), on whatever self.stream is when
\* the thread gets to run; on None the attribute access raises
run_call(p) ==
  /\ runs[p] = "spawned"
  /\ IF eng.stream = 0
       THEN /\ runs' = [runs EXCEPT ![p] = "raised"]
            /\ UNCHANGED pipes
       ELSE /\ StreamStart(eng.stream)
            /\ runs' = [runs EXCEPT ![p] = "ended"]
  /\ UNCHANGED <<scanVars, firVars, seVars, rxVars, bankVars, ringVars, dspVars, eng, caller>>

\* _run, lines 161-163: except Exception: with self._lock: self.stream = None
run_handler(p) ==
  /\ runs[p] = "raised"
  /\ eng' = [eng EXCEPT !.stream = 0]
  /\ runs' = [runs EXCEPT ![p] = "ended"]
  /\ UNCHANGED <<scanVars, firVars, seVars, rxVars, bankVars, ringVars, dspVars, pipes, caller>>

\* set_mode, line 229: Thread(target=new_stream.start)
direct_call(p) ==
  /\ runs[p] = "direct"
  /\ StreamStart(p)
  /\ runs' = [runs EXCEPT ![p] = "ended"]
  /\ UNCHANGED <<scanVars, firVars, seVars, rxVars, bankVars, ringVars, dspVars, eng, caller>>

\* _loop, am.py line 117: while self.running
pipe_loop_check(p) ==
  /\ pipes[p].loop = "l_check"
  /\ pipes' = [pipes EXCEPT ![p].loop =
                 IF pipes[p].running THEN "l_get" ELSE "ended"]
  /\ UNCHANGED <<scanVars, firVars, seVars, rxVars, bankVars, ringVars, dspVars, eng, runs, caller>>

\* lines 118-125: a chunk is taken from the queue, or the wait times out or
\* the chunk is too short and the loop goes round
pipe_loop_get(p) ==
  /\ pipes[p].loop = "l_get"
  /\ \E chunk \in BOOLEAN :
       pipes' = [pipes EXCEPT ![p].loop = IF chunk THEN "l_out" ELSE "l_check"]
  /\ UNCHANGED <<scanVars, firVars, seVars, rxVars, bankVars, ringVars, dspVars, eng, runs, caller>>

\* lines 127-153: the block is demodulated and handed to self.on_audio, the
\* callback the pipeline was built with; the call is not inside a try
pipe_loop_out(p) ==
  /\ pipes[p].loop = "l_out"
  /\ \E raises \in BOOLEAN :
       pipes' = [pipes EXCEPT ![p].loop =
                   IF pipes[p].cb # 0 /\ raises THEN "dead" ELSE "l_check"]
  /\ UNCHANGED <<scanVars, firVars, seVars, rxVars, bankVars, ringVars, dspVars, eng, runs, caller>>

\* ---- demodulator parameters and filters ----------------------------------------

\* parameter values: two of each, the first the default
Vals == {2, 3}
Default == 2

\* the attributes update_params can reach, by class
Attrs(kind) ==
  IF kind = "AM" THEN {"hpf_hz", "lpf_hz", "drive"}
  ELSE IF kind = "SSB" THEN {"hpf_hz", "lpf_hz", "drive", "sideband"}
  ELSE {"chan_cutoff_hz", "aud_cutoff_hz", "chan_taps", "aud_taps",
        "tau", "drive", "volume"}

\* the keyword arguments tried; tau_us and hpf_hz are keys of the engine's
\* NFM preset that NBFMStream has no attribute for
Keys(kind) ==
  IF kind = "NFM"
    THEN {"chan_cutoff_hz", "aud_cutoff_hz", "aud_taps", "tau", "drive",
          "tau_us"}
    ELSE Attrs(kind) \cup {"tau"}

\* the filters of each class: the audio low-pass of AMStream and SSBStream
\* (_af_lpf_taps), the channel and audio filters of NBFMStream
Filters(kind) == IF kind = "NFM" THEN {"chan", "aud"} ELSE {"af"}

\* the attributes a filter is designed from
CutoffOf(f) ==
  IF f = "af" THEN "lpf_hz" ELSE IF f = "chan" THEN "chan_cutoff_hz"
  ELSE "aud_cutoff_hz"

TapsOf(f) == IF f = "chan" THEN "chan_taps" ELSE "aud_taps"

\* the calls: at most two keyword arguments
ParamDicts(kind) ==
  UNION {[K -> Vals] : K \in {S \in SUBSET Keys(kind) : Cardinality(S) <= 2}}

\* coefficients are known by what they were designed from and by the array
\* that holds them
Design(d, f, id) ==
  [cutoff |-> d.attr[CutoffOf(f)],
   taps |-> IF d.kind = "NFM" THEN d.attr[TapsOf(f)] ELSE 0,
   id |-> id]

\* the pipeline as its constructor leaves it; AMStream and SSBStream filter
\* with lfilter and keep no tail
NewDemod(kind) ==
  LET d0 == [kind |-> kind, attr |-> [a \in Attrs(kind) |-> Default]]
  IN  [kind |-> kind,
       attr |-> d0.attr,
       fir |-> [f \in Filters(kind) |-> Design(d0, f, 0)],
       zi |-> [f \in Filters(kind) |->
                 IF kind = "NFM" THEN Zeros(d0.attr[TapsOf(f)] - 1)
                                 ELSE << >>],
       builds |-> 0]

NoCall == [op |-> "none", params |-> << >>, noop |-> FALSE]

DspInit ==
  /\ dm = NewDemod("AM")
  /\ last = NoCall

\* AMStream._build_af (am.py lines 53-58), SSBStream._build_af: a new array
\* of coefficients for the current lpf_hz
_build_af(d) ==
  [d EXCEPT !.fir = [f \in Filters(d.kind) |-> Design(d, f, d.builds + 1)],
            !.builds = d.builds + 1]

\* _rebuild_filters, which NBFMStream calls and src/ does not define: every
\* filter gets new coefficients for the current cutoff and tap count, and its
\* tail is reset to zeros
_rebuild_filters(d) ==
  [d EXCEPT !.fir = [f \in Filters(d.kind) |-> Design(d, f, d.builds + 1)],
            !.zi = [f \in Filters(d.kind) |-> Zeros(d.attr[TapsOf(f)] - 1)],
            !.builds = d.builds + 1]

\* a variant that builds the filter whenever lpf_hz is given
AM_update_params_always(d, p) ==
  IF ~(DOMAIN p \subseteq Attrs(d.kind))
    THEN d
    ELSE LET set == [d EXCEPT !.attr = [a \in Attrs(d.kind) |->
                                          IF a \in DOMAIN p THEN p[a]
                                                            ELSE d.attr[a]]]
         IN  IF "lpf_hz" \in DOMAIN p THEN _build_af(set) ELSE set

\* AMStream.update_params (am.py lines 77-91) and SSBStream.update_params
\* (ssb.py lines 85-102): a keyword they do not name raises TypeError; the
\* values given are stored; the filter is built again when lpf_hz changed
AM_update_params(d, p) ==
  IF ~(DOMAIN p \subseteq Attrs(d.kind))
    THEN d
    ELSE LET set == [d EXCEPT !.attr = [a \in Attrs(d.kind) |->
                                          IF a \in DOMAIN p THEN p[a]
                                                            ELSE d.attr[a]]]
             rebuild == "lpf_hz" \in DOMAIN p /\ p["lpf_hz"] # d.attr["lpf_hz"]
         IN  IF rebuild THEN _build_af(set) ELSE set

\* NBFMStream.update_params (nbfm.py lines 45-61): keys without an attribute
\* are skipped; every value that differs is stored and asks for a rebuild
NBFM_update_params(d, p) ==
  LET changed == {k \in DOMAIN p \cap Attrs(d.kind) : d.attr[k] # p[k]}
      set == [d EXCEPT !.attr = [a \in Attrs(d.kind) |->
                                   IF a \in changed THEN p[a] ELSE d.attr[a]]]
  IN  IF changed # {} THEN _rebuild_filters(set) ELSE set

\* whether the call leaves every attribute at its value
SameValues(d, p) ==
  \A k \in DOMAIN p \cap Attrs(d.kind) : d.attr[k] = p[k]

\* update_params(**p) on the pipeline
update_params(p) ==
  /\ dm.builds < MaxBuilds
  /\ dm' = IF dm.kind = "NFM" THEN NBFM_update_params(dm, p)
                              ELSE AM_update_params(dm, p)
  /\ last' = [op |-> "update", params |-> p, noop |-> SameValues(dm, p)]
  /\ UNCHANGED <<scanVars, firVars, seVars, rxVars, bankVars, ringVars, engVars>>

\* one block through the filters: fir_stream keeps the last taps - 1 samples
\* of tail and block (wbfm.py lines 92-97, 225-236); the lfilter of AMStream
\* and SSBStream (am.py line 144) keeps nothing
process_block(x) ==
  /\ dm' = [dm EXCEPT !.zi = [f \in Filters(dm.kind) |->
                                IF dm.kind = "NFM"
                                  THEN LastK(dm.zi[f] \o x,
                                             dm.attr[TapsOf(f)] - 1)
                                  ELSE dm.zi[f]]]
  /\ last' = [op |-> "block", params |-> << >>, noop |-> FALSE]
  /\ UNCHANGED <<scanVars, firVars, seVars, rxVars, bankVars, ringVars, engVars>>

\* ---- BanksStore ------------------------------------------------------------------

BankKinds == {"freq", "range"}

\* _limit_check, line 39
BankLimit == 20

\* no id in the dictionary, and an id the caller made up
NoId == 0
GivenId == 0 - 1

BankIds(arr) == {arr[i].id : i \in 1..Len(arr)}

\* uuid4: an id no stored bank has
FreshId(arr) ==
  CHOOSE n \in 1..(Len(arr) + 1) :
    /\ n \notin BankIds(arr)
    /\ \A k \in 1..(n - 1) : k \in BankIds(arr)

\* the ids a caller passes: none, or its own; its own only for the freq kind
IdInputs(kind) == IF kind = "freq" THEN {NoId, GivenId} ELSE {NoId}

\* the dictionaries passed to upsert_bank: with or without a name, and for
\* the range kind with or without a valid range, step and mode
BankInputs(kind) ==
  {b \in [id : IdInputs(kind), named : BOOLEAN, active : BOOLEAN,
          rangeOk : BOOLEAN] :
     /\ b.id = NoId => ~b.active
     /\ kind = "freq" => b.rangeOk}

NoBankCall == [op |-> "none", kind |-> "", id |-> NoId, err |-> FALSE]

\* BanksStore.__init__ with no file: lines 8-17
BanksInit ==
  /\ bank_data = [k \in BankKinds |-> << >>]
  /\ bank_file = bank_data
  /\ bank_call = NoBankCall

\* a limit that lets one bank too many in
_limit_check_late(arr, creating) == creating /\ Len(arr) > BankLimit

\* _limit_check, lines 35-40: whether it raises
_limit_check(arr, creating) == creating /\ Len(arr) >= BankLimit

\* lines 77-85: the bank replaces the first bank with its id, or is appended
Upserted(arr, b) ==
  IF \E i \in 1..Len(arr) : arr[i].id = b.id
    THEN LET i == CHOOSE j \in 1..Len(arr) :
                    arr[j].id = b.id /\ \A k \in 1..(j - 1) : arr[k].id # b.id
         IN  [arr EXCEPT ![i] = b]
    ELSE Append(arr, b)

\* upsert_bank, lines 42-85
upsert_bank(kind, bank) ==
  LET arr == bank_data[kind]
      creating == bank.id = NoId
      id == IF creating THEN FreshId(arr) ELSE bank.id
      raises == \/ _limit_check(arr, creating)
                \/ ~bank.named
                \/ kind = "range" /\ ~bank.rangeOk
  IN  /\ bank_call' = [op |-> "upsert", kind |-> kind, id |-> bank.id,
                       err |-> raises]
      /\ IF raises
           THEN UNCHANGED <<bank_data, bank_file>>
           ELSE /\ bank_data' = [bank_data EXCEPT ![kind] =
                                   Upserted(arr, [id |-> id,
                                                  active |-> bank.active])]
                /\ bank_file' = bank_data'
      /\ UNCHANGED <<scanVars, firVars, seVars, rxVars, ringVars, engVars, dspVars>>

\* delete_bank, lines 87-90
delete_bank(kind, bank_id) ==
  /\ bank_data' = [bank_data EXCEPT ![kind] =
                     SelectSeq(bank_data[kind], LAMBDA b : b.id # bank_id)]
  /\ bank_file' = bank_data'
  /\ bank_call' = [op |-> "delete", kind |-> kind, id |-> bank_id,
                   err |-> FALSE]
  /\ UNCHANGED <<scanVars, firVars, seVars, rxVars, ringVars, engVars, dspVars>>

\* set_active, lines 92-97
set_active(kind, bank_id, active) ==
  /\ bank_data' = [bank_data EXCEPT ![kind] =
                     [i \in 1..Len(bank_data[kind]) |->
                        IF bank_data[kind][i].id = bank_id
                          THEN [bank_data[kind][i] EXCEPT !.active = active]
                          ELSE bank_data[kind][i]]]
  /\ bank_file' = bank_data'
  /\ bank_call' = [op |-> "set_active", kind |-> kind, id |-> bank_id,
                   err |-> FALSE]
  /\ UNCHANGED <<scanVars, firVars, seVars, rxVars, ringVars, engVars, dspVars>>

\* ---- fir_stream and fir_lowpass ----------------------------------------------

\* sum of f(j) for j in 1..n
RECURSIVE SumTo(_, _)
SumTo(f, n) == IF n = 0 THEN 0 ELSE f[n] + SumTo(f, n - 1)

\* np.convolve(a, v, mode="valid") for non-empty a and v: the shorter slides
\* over the longer, and there are max - min + 1 results
ConvValid(a, v) ==
  LET big == IF Len(v) > Len(a) THEN v ELSE a
      small == IF Len(v) > Len(a) THEN a ELSE v
      m == Len(small)
  IN  [k \in 1..(Len(big) - m + 1) |->
         SumTo([j \in 1..m |-> big[k + j - 1] * small[m - j + 1]], m)]

\* x2[-m:] of Python: the last m items, and the whole of x2 when m is 0
KeepLast(x2, m) == IF m = 0 THEN x2 ELSE LastK(x2, m)

NoOutput == [err |-> FALSE, y |-> << >>, zi |-> << >>]

\* fir_stream, wbfm.py lines 92-97; np.convolve raises ValueError on an
\* empty array
fir_stream(x, h, zi) ==
  LET x2 == zi \o x
  IN  IF x2 = << >>
        THEN [err |-> TRUE, y |-> << >>, zi |-> << >>]
        ELSE [err |-> FALSE, y |-> ConvValid(x2, h),
              zi |-> KeepLast(x2, Len(h) - 1)]

\* samples and coefficients
FirSamples == {1, 2}
Coeffs == UNION {[1..n -> {1, 2}] : n \in 1..3}
Blocks == UNION {[1..n -> FirSamples] : n \in 0..MaxBlock}

\* the input x, the coefficients h, the first tail zi and where x is split
FirInputs ==
  {c \in [x : Blocks, h : Coeffs, zi : {<< >>, <<0>>, <<1>>, <<0, 0>>, <<1, 2>>},
          k : 0..MaxBlock] :
     /\ Len(c.zi) = Len(c.h) - 1
     /\ c.k <= Len(c.x)}

FirInit ==
  /\ fir \in {[in |-> c, pc |-> "whole", whole |-> NoOutput,
               first |-> NoOutput, second |-> NoOutput] : c \in FirInputs}

FirIdle ==
  fir = [in |-> [x |-> << >>, h |-> <<1>>, zi |-> << >>, k |-> 0],
         pc |-> "done", whole |-> NoOutput, first |-> NoOutput,
         second |-> NoOutput]

\* the whole input in one call
fir_whole ==
  /\ fir.pc = "whole"
  /\ fir' = [fir EXCEPT !.whole = fir_stream(fir.in.x, fir.in.h, fir.in.zi),
                        !.pc = "first"]
  /\ UNCHANGED <<scanVars, seVars, rxVars, ringVars, engVars, dspVars, bankVars, lp>>

\* the first k samples
fir_first ==
  /\ fir.pc = "first"
  /\ fir' = [fir EXCEPT !.first = fir_stream(SubSeq(fir.in.x, 1, fir.in.k),
                                             fir.in.h, fir.in.zi),
                        !.pc = "second"]
  /\ UNCHANGED <<scanVars, seVars, rxVars, ringVars, engVars, dspVars, bankVars, lp>>

\* the rest, with the tail the first call returned
fir_second ==
  /\ fir.pc = "second"
  /\ fir' = [fir EXCEPT !.second =
               IF fir.first.err
                 THEN fir.first
                 ELSE fir_stream(SubSeq(fir.in.x, fir.in.k + 1, Len(fir.in.x)),
                                 fir.in.h, fir.first.zi),
                        !.pc = "done"]
  /\ UNCHANGED <<scanVars, seVars, rxVars, ringVars, engVars, dspVars, bankVars, lp>>

\* fir_lowpass, wbfm.py lines 83-89.  Frequencies are in hundredths of a
\* hertz.  With d = 2 i - (num_taps - 1), coefficient i (from 0) is
\* 2 fc sinc(fc d) times a Hamming weight, fc = cutoff_hz / fs: it is zero
\* when the cutoff is zero, and when d is not zero and fc d is a whole number.
\* (zero in exact arithmetic, a rounding error away from it in floats; for a
\* cutoff of 0 it is the float 0.0).  Dividing by the sum then gives NaN when
\* every coefficient is zero.  The result is kept as far as that goes: which
\* coefficients are zero, and whether they are NaN.
CoeffIsZero(num_taps, cutoff_hz, fs, i) ==
  LET d == 2 * i - (num_taps - 1)
  IN  \/ cutoff_hz = 0
      \/ d # 0 /\ (cutoff_hz * d) % fs = 0

fir_lowpass(num_taps, cutoff_hz, fs) ==
  LET zero == [i \in 0..(num_taps - 1) |->
                 CoeffIsZero(num_taps, cutoff_hz, fs, i)]
  IN  [zero |-> zero, nan |-> \A i \in 0..(num_taps - 1) : zero[i]]

\* the calls: odd tap counts, for which the sum is zero only when every
\* coefficient is; cutoffs below, inside and above (0, 0.49 fs]
TapInputs == {1, 3, 5}
FsInputs == {100, 200, 300, 400}
CutoffInputs(fs) ==
  {0 - fs, 0, 1, fs \div 4, (49 * fs) \div 100, fs \div 2, (3 * fs) \div 4,
   fs, 2 * fs}

LpIdle == lp = [num_taps |-> 0, cutoff_hz |-> 0, fs |-> 0, out |-> << >>]

fir_lowpass_call(num_taps, cutoff_hz, fs) ==
  /\ lp' = [num_taps |-> num_taps, cutoff_hz |-> cutoff_hz, fs |-> fs,
            out |-> fir_lowpass(num_taps, cutoff_hz, fs)]
  /\ UNCHANGED <<scanVars, seVars, rxVars, ringVars, engVars, dspVars, bankVars, fir>>

\* ---- ScanEngine -----------------------------------------------------------------

\* Time is in units of hold_ms / 2.  _last_signal_ts is kept as the time
\* elapsed since it was set, which is all line 113 reads of it; an age of
\* hold_ms stands for any age from hold_ms on.  NoTs is None.
ScanSquelch == -80
SmeterFloor == -120
NoTs == -1

\* get_smeter: below, at and above the squelch, and the -120.0 that
\* _safe_get_smeter returns when the driver raises
SmeterInputs == {SmeterFloor, -90, ScanSquelch, -40}

\* ScanConfig: one channel, a range the step divides, one it does not, and
\* a range whose start is above its end
ScanConfigs ==
  {[start_hz |-> 10, end_hz |-> e, step_hz |-> st, squelch_db |-> ScanSquelch,
    hold_ms |-> h] : e \in {9, 10, 12, 13}, st \in {1, 2}, h \in {0, 2}}

\* ScanEngine.__init__, lines 46-54
NewScanEngine(cfg) ==
  [cfg |-> cfg, state |-> "IDLE", running |-> FALSE, current_hz |-> cfg.start_hz,
   _last_level_db |-> SmeterFloor, _last_signal_ts |-> NoTs]

NoScanCall == [op |-> "", level |-> SmeterFloor, measured |-> FALSE, heard |-> NoTs]

SeInit ==
  /\ se \in {NewScanEngine(cfg) : cfg \in ScanConfigs}
  /\ se_obs = NoScanCall

SeIdle ==
  /\ se = NewScanEngine([start_hz |-> 10, end_hz |-> 10, step_hz |-> 1,
                         squelch_db |-> ScanSquelch, hold_ms |-> 0])
  /\ se_obs = NoScanCall

\* a variant that runs past end_hz
_advance_freq_on(e) == [e EXCEPT !.current_hz = e.current_hz + e.cfg.step_hz]

\* ScanEngine._advance_freq, lines 130-133
_advance_freq(e) ==
  LET hz == e.current_hz + e.cfg.step_hz
  IN  [e EXCEPT !.current_hz = IF hz > e.cfg.end_hz THEN e.cfg.start_hz ELSE hz]

\* a variant that moves on from a frequency whose level is the squelch itself
step_scan_above(e, level) ==
  LET e1 == [e EXCEPT !._last_level_db = level]
  IN  IF level > e.cfg.squelch_db
        THEN [e1 EXCEPT !.state = "HOLD", !._last_signal_ts = 0]
        ELSE _advance_freq(e1)

\* step_once in state SCAN after the tune, lines 90-101
step_scan(e, level) ==
  LET e1 == [e EXCEPT !._last_level_db = level]
  IN  IF level >= e.cfg.squelch_db
        THEN [e1 EXCEPT !.state = "HOLD", !._last_signal_ts = 0]
        ELSE _advance_freq(e1)

\* a variant that keeps the time of the first signal
step_hold_first(e, level) ==
  LET e1 == [e EXCEPT !._last_level_db = level]
  IN  IF level >= e.cfg.squelch_db
        THEN e1
      ELSE IF e._last_signal_ts = NoTs \/ e._last_signal_ts >= e.cfg.hold_ms
        THEN _advance_freq([e1 EXCEPT !.state = "SCAN"])
      ELSE e1

\* step_once in state HOLD, lines 103-120
step_hold(e, level) ==
  LET e1 == [e EXCEPT !._last_level_db = level]
  IN  IF level >= e.cfg.squelch_db
        THEN [e1 EXCEPT !._last_signal_ts = 0]
      ELSE IF e._last_signal_ts = NoTs \/ e._last_signal_ts >= e.cfg.hold_ms
        THEN _advance_freq([e1 EXCEPT !.state = "SCAN"])
      ELSE e1

\* ScanEngine.start, lines 59-63
se_start ==
  /\ se' = [se EXCEPT !.running = TRUE, !.state = "SCAN",
                      !.current_hz = se.cfg.start_hz, !._last_signal_ts = NoTs]
  /\ se_obs' = [se_obs EXCEPT !.op = "start", !.measured = FALSE]
  /\ UNCHANGED <<scanVars, firVars, rxVars, ringVars, engVars, dspVars, bankVars>>

\* ScanEngine.stop, lines 65-67
se_stop ==
  /\ se' = [se EXCEPT !.running = FALSE, !.state = "IDLE"]
  /\ se_obs' = [se_obs EXCEPT !.op = "stop", !.measured = FALSE]
  /\ UNCHANGED <<scanVars, firVars, rxVars, ringVars, engVars, dspVars, bankVars>>

\* ScanEngine.step_once, lines 75-125.  level is what _safe_get_smeter
\* returns; tune_ok is FALSE when driver.set_frequency raises, which ends
\* the call at line 89.
step_once(level, tune_ok) ==
  LET measured == /\ se.running
                  /\ \/ se.state = "SCAN" /\ tune_ok
                     \/ se.state = "HOLD"
  IN  /\ se' = IF ~se.running THEN se
               ELSE IF se.state = "SCAN"
                 THEN IF tune_ok THEN step_scan(se, level) ELSE se
               ELSE IF se.state = "HOLD" THEN step_hold(se, level)
               ELSE [se EXCEPT !.state = "IDLE"]
      /\ se_obs' = [op |-> "step_once", level |-> level, measured |-> measured,
                    heard |-> IF measured /\ level >= se.cfg.squelch_db
                                THEN 0 ELSE se_obs.heard]
      /\ UNCHANGED <<scanVars, firVars, rxVars, ringVars, engVars, dspVars, bankVars>>

\* time.monotonic() moves on by one unit between two calls
Age(t, cfg) == IF t = NoTs \/ t >= cfg.hold_ms THEN t ELSE t + 1

se_tick ==
  /\ se' = [se EXCEPT !._last_signal_ts = Age(se._last_signal_ts, se.cfg)]
  /\ se_obs' = [se_obs EXCEPT !.op = "", !.measured = FALSE,
                              !.heard = Age(se_obs.heard, se.cfg)]
  /\ UNCHANGED <<scanVars, firVars, rxVars, ringVars, engVars, dspVars, bankVars>>

\* ---- the byte queue and its readers ------------------------------------------

StreamIds == 1..MaxTunes

\* an AMStream or SSBStream: running, where its loop thread is, the chunk it
\* holds, the chunk its last block was made from (0: none) and the blocks it
\* has handed out since stop() was called on it
NoStream ==
  [made |-> FALSE, running |-> FALSE, loop |-> "none", raw |-> 0, block |-> 0,
   late |-> 0]

\* HackRFDriver.__init__, line 193, and AudioEngine.__init__
RxInit ==
  /\ tunes = 0
  /\ byte_q = << >>
  /\ strm = [p \in StreamIds |-> NoStream]
  /\ cur = 0

RxIdle == RxInit

\* a variant that drops the oldest chunk of a full queue
_rx_cb_newest ==
  /\ byte_q' = IF Len(byte_q) < QueueCap THEN Append(byte_q, tunes)
               ELSE Append(SubSeq(byte_q, 2, Len(byte_q)), tunes)
  /\ UNCHANGED <<scanVars, firVars, seVars, ringVars, engVars, dspVars,
                 bankVars, tunes, strm, cur>>

\* HackRFDriver._rx_cb, lines 310-335: put_nowait(raw); on a full queue it
\* raises queue.Full, which is swallowed, and the chunk is lost
_rx_cb ==
  /\ byte_q' = IF Len(byte_q) < QueueCap THEN Append(byte_q, tunes) ELSE byte_q
  /\ UNCHANGED <<scanVars, firVars, seVars, ringVars, engVars, dspVars,
                 bankVars, tunes, strm, cur>>

\* AMStream.stop / SSBStream.stop (am.py lines 70-71) on the pipeline p
StreamStop(s, p) ==
  IF p = 0 THEN s ELSE [s EXCEPT ![p].running = FALSE]

\* AudioEngine.start, lines 86-160, with a mode it can build: the current
\* pipeline is stopped, the radio is tuned, and a pipeline is built on the
\* queue get_audio_queue() returns and started
rx_start ==
  /\ tunes < MaxTunes
  /\ tunes' = tunes + 1
  /\ strm' = [StreamStop(strm, cur) EXCEPT
                ![tunes + 1] = [NoStream EXCEPT !.made = TRUE, !.running = TRUE,
                                                !.loop = "l_check"]]
  /\ cur' = tunes + 1
  /\ UNCHANGED <<scanVars, firVars, seVars, ringVars, engVars, dspVars,
                 bankVars, byte_q>>

\* AudioEngine.stop, lines 172-183
rx_stop ==
  /\ strm' = StreamStop(strm, cur)
  /\ cur' = 0
  /\ UNCHANGED <<scanVars, firVars, seVars, ringVars, engVars, dspVars,
                 bankVars, tunes, byte_q>>

\* _loop, am.py line 117: while self.running.  What a thread has handed out
\* is forgotten when it ends.
strm_check(p) ==
  /\ strm[p].loop = "l_check"
  /\ strm' = [strm EXCEPT ![p] =
                IF strm[p].running THEN [strm[p] EXCEPT !.loop = "l_get"]
                ELSE [NoStream EXCEPT !.made = TRUE, !.loop = "ended"]]
  /\ UNCHANGED <<scanVars, firVars, seVars, ringVars, engVars, dspVars,
                 bankVars, tunes, byte_q, cur>>

\* a variant of the wait that has no timeout
strm_get_blocking(p) ==
  /\ strm[p].loop = "l_get"
  /\ byte_q # << >>
  /\ \E long \in BOOLEAN :
       strm' = [strm EXCEPT ![p].raw = IF long THEN Head(byte_q) ELSE 0,
                            ![p].loop = IF long THEN "l_out" ELSE "l_check"]
  /\ byte_q' = Tail(byte_q)
  /\ UNCHANGED <<scanVars, firVars, seVars, ringVars, engVars, dspVars,
                 bankVars, tunes, cur>>

\* lines 118-125: self.q.get(timeout=0.2); on queue.Empty, and on a chunk of
\* fewer than 256 samples, the loop goes round
strm_get(p) ==
  /\ strm[p].loop = "l_get"
  /\ IF byte_q = << >>
       THEN /\ strm' = [strm EXCEPT ![p].loop = "l_check"]
            /\ UNCHANGED byte_q
       ELSE /\ \E long \in BOOLEAN :
                 strm' = [strm EXCEPT
                            ![p].raw = IF long THEN Head(byte_q) ELSE 0,
                            ![p].loop = IF long THEN "l_out" ELSE "l_check"]
            /\ byte_q' = Tail(byte_q)
  /\ UNCHANGED <<scanVars, firVars, seVars, ringVars, engVars, dspVars,
                 bankVars, tunes, cur>>

\* lines 127-153: the chunk is demodulated and the block handed to
\* self.on_audio; a callback that raises ends the thread
strm_out(p) ==
  /\ strm[p].loop = "l_out"
  /\ \E raises \in BOOLEAN :
       strm' = [strm EXCEPT
                  ![p].block = strm[p].raw,
                  ![p].raw = 0,
                  ![p].late = IF strm[p].running THEN 0 ELSE strm[p].late + 1,
                  ![p].loop = IF raises THEN "dead" ELSE "l_check"]
  /\ UNCHANGED <<scanVars, firVars, seVars, ringVars, engVars, dspVars,
                 bankVars, tunes, byte_q, cur>>

\* ---- time -----------------------------------------------------------------
Min(a, b) == IF a < b THEN a ELSE b

\* one second passes; a call of _on_audio takes less than that, so the
\* `now' it reads at line 100 is still the time at line 123
Tick ==
  /\ tpc = "idle"
  /\ armed_until' = IF armed_until > 0 THEN armed_until - 1 ELSE 0
  /\ w' = [i \in Workers |->
             IF w[i].pc = "w_wait"
               THEN [w[i] EXCEPT !.waited = Min(WaitCap, w[i].waited + 1)]
               ELSE w[i]]
  /\ UNCHANGED <<cfgVars, is_running, stop_evt, kind_filter, rec, armed,
                 armed_path, rec_done, uiVars, audioVars, tapVars, files>>

ScannerInit ==
  /\ store \in StoreChoices
  /\ loopForever \in BOOLEAN
  /\ holdSec \in HoldChoices
  /\ mgrHasTap \in BOOLEAN
  /\ quiet \in BOOLEAN
  /\ is_running = FALSE
  /\ stop_evt = FALSE
  /\ kind_filter = "ALL"
  /\ rec = None
  /\ armed = FALSE
  /\ armed_path = None
  /\ armed_until = 0
  /\ rec_done = FALSE
  /\ w = [i \in Workers |-> NoWorker]
  /\ ui = "idle"
  /\ tap = FALSE
  /\ audioOn = FALSE
  /\ streamTap = FALSE
  /\ drain = FALSE
  /\ tpc = "idle"
  /\ files = {}

Init ==
  /\ ScannerInit
  /\ impl = "core"
  /\ RingInit
  /\ EngineInit
  /\ DspInit
  /\ BanksInit
  /\ FirIdle
  /\ LpIdle
  /\ SeIdle
  /\ RxIdle

Worker(i) ==
  \/ loop_enter(i) \/ loop_pass(i) \/ loop_freq_bank(i) \/ loop_freq_item(i)
  \/ loop_range_bank(i) \/ loop_range_step(i) \/ loop_end_pass(i)
  \/ loop_finally(i) \/ scan_return(i) \/ scan_tune(i) \/ scan_level(i)
  \/ scan_arm(i) \/ scan_start_audio(i) \/ scan_wait(i) \/ scan_stop_audio(i)

OnAudio ==
  on_audio_enter \/ on_audio_open \/ on_audio_write \/ on_audio_deadline

Next ==
  \/ \E kf \in KindFilters : start_joined(kf)
  \/ stop_signal
  \/ stop_finish
  \/ \E i \in Workers : Worker(i)
  \/ OnAudio
  \/ Tick

Spec == Init /\ [][Next]_vars

\* Threads that are runnable get to run: each scan worker, a call of
\* _on_audio that has begun, a stop() that has begun, and the clock.  Whether
\* another audio block arrives depends on the radio and is not assumed.
FairSpec ==
  /\ Spec
  /\ \A i \in Workers : WF_vars(Worker(i))
  /\ WF_vars(on_audio_open \/ on_audio_write \/ on_audio_deadline)
  /\ WF_vars(stop_finish)
  /\ WF_vars(Tick)

\* start() may also come while an earlier thread is still alive: stop() gives
\* up joining it after 1.5 s (line 90).  That happens to a thread inside a
\* driver call or the settle sleep, where it does not look at the stop event
start_unjoined(kf) ==
  /\ \A i \in Workers : Live(w[i]) => w[i].pc \in {"w_tune", "w_level"}
  /\ start(kf)

\* the restart scenario: a signal on the band, one pass over a store with a
\* frequency bank and a range bank, clips of zero hold
InitRestart ==
  /\ Init
  /\ mgrHasTap
  /\ ~quiet
  /\ ~loopForever
  /\ holdSec = 0
  /\ store.range # << >>

NextRestart ==
  \/ start_unjoined("ALL")
  \/ stop_signal
  \/ stop_finish
  \/ \E i \in Workers : Worker(i)
  \/ OnAudio
  \/ Tick

SpecRestart == InitRestart /\ [][NextRestart]_vars

\* ---- the ring buffer on its own ---------------------------------------------

\* the scanner is not started
ScannerOff ==
  /\ ScannerInit
  /\ ~loopForever /\ holdSec = 0 /\ ~mgrHasTap /\ quiet
  /\ store.range = << >> /\ Len(store.freq[1].items) = 1

InitRing ==
  /\ ScannerOff
  /\ impl \in {"core", "driver"}
  /\ RingInit
  /\ EngineInit
  /\ DspInit
  /\ BanksInit
  /\ FirIdle
  /\ LpIdle
  /\ SeIdle
  /\ RxIdle

NextRing ==
  \/ \E iq \in PushInputs : push_call(iq)
  \/ push_acquire
  \/ push_write
  \/ push_wrap
  \/ push_commit
  \/ \E r \in Readers, n \in LatestInputs : latest_call(r, n)
  \/ \E r \in Readers : latest_read(r)

SpecRing == InitRing /\ [][NextRing]_vars

\* ---- the AudioEngine on its own ---------------------------------------------

InitEngine ==
  /\ ScannerOff
  /\ impl = "core"
  /\ RingInit
  /\ EngineInit
  /\ DspInit
  /\ BanksInit
  /\ FirIdle
  /\ LpIdle
  /\ SeIdle
  /\ RxIdle

PipeThread(p) ==
  \/ run_call(p) \/ run_handler(p) \/ direct_call(p)
  \/ pipe_loop_check(p) \/ pipe_loop_get(p) \/ pipe_loop_out(p)

NextEngine ==
  \/ engine_stop
  \/ \E mode \in Modes : engine_start(mode)
  \/ engine_stop_end
  \/ start_create
  \/ start_launch
  \/ \E mode \in Modes : set_mode_begin(mode)
  \/ set_mode_build
  \/ \E cb \in Callbacks : set_on_audio(cb)
  \/ \E params \in ParamInputs : update_dsp_params(params)
  \/ update_forward
  \/ \E p \in PipeIds : PipeThread(p)

SpecEngine == InitEngine /\ [][NextEngine]_vars

\* every thread that can run does; the calls from outside are not forced
FairEngine ==
  /\ SpecEngine
  /\ \A p \in PipeIds : WF_vars(PipeThread(p))
  /\ WF_vars(engine_stop_end \/ start_create \/ start_launch \/ set_mode_build
              \/ update_forward)

\* the calls of start, stop and set_mode, and the threads
EngineCalls ==
  \/ engine_stop
  \/ \E mode \in Modes : engine_start(mode)
  \/ engine_stop_end
  \/ start_create
  \/ start_launch
  \/ \E mode \in Modes : set_mode_begin(mode)
  \/ set_mode_build
  \/ \E p \in PipeIds : PipeThread(p)

\* the AudioEngine with two values of drive; no tap is registered
NextParams ==
  \/ EngineCalls
  \/ \E params \in TuneInputs : update_dsp_params(params)
  \/ update_forward

SpecParams == InitEngine /\ [][NextParams]_vars

\* the AudioEngine with set_volume; no tap is registered and no parameter
\* is set
NextVolume ==
  \/ EngineCalls
  \/ \E v \in VolumeInputs : set_volume(v)

SpecVolume == InitEngine /\ [][NextVolume]_vars

\* ---- a demodulator pipeline on its own ---------------------------------------

InitDsp ==
  /\ ScannerOff
  /\ impl = "core"
  /\ RingInit
  /\ EngineInit
  /\ dm \in {NewDemod(kind) : kind \in {"AM", "SSB", "NFM"}}
  /\ last = NoCall
  /\ BanksInit
  /\ FirIdle
  /\ LpIdle
  /\ SeIdle
  /\ RxIdle

NextDsp ==
  \/ \E p \in ParamDicts(dm.kind) : update_params(p)
  \/ \E x \in {<<1>>, <<1, 1>>} : process_block(x)

SpecDsp == InitDsp /\ [][NextDsp]_vars

\* ---- the BanksStore on its own -----------------------------------------------

InitBanks ==
  /\ ScannerOff
  /\ impl = "core"
  /\ RingInit
  /\ EngineInit
  /\ DspInit
  /\ BanksInit
  /\ FirIdle
  /\ LpIdle
  /\ SeIdle
  /\ RxIdle

NextBanks ==
  \E kind \in BankKinds :
    \/ \E bank \in BankInputs(kind) : upsert_bank(kind, bank)
    \/ \E id \in IdInputs(kind) \ {NoId} :
         \/ delete_bank(kind, id)
         \/ \E active \in BOOLEAN : set_active(kind, id, active)

SpecBanks == InitBanks /\ [][NextBanks]_vars

\* ---- the filter functions on their own ----------------------------------------

InitFir ==
  /\ ScannerOff
  /\ impl = "core"
  /\ RingInit
  /\ EngineInit
  /\ DspInit
  /\ BanksInit
  /\ FirInit
  /\ LpIdle
  /\ SeIdle
  /\ RxIdle

NextFir == fir_whole \/ fir_first \/ fir_second

SpecFir == InitFir /\ [][NextFir]_vars

InitLowpass ==
  /\ ScannerOff
  /\ impl = "core"
  /\ RingInit
  /\ EngineInit
  /\ DspInit
  /\ BanksInit
  /\ FirIdle
  /\ LpIdle
  /\ SeIdle
  /\ RxIdle

NextLowpass ==
  \E num_taps \in TapInputs, fs \in FsInputs :
    \E cutoff_hz \in CutoffInputs(fs) : fir_lowpass_call(num_taps, cutoff_hz, fs)

SpecLowpass == InitLowpass /\ [][NextLowpass]_vars

\* ---- the ScanEngine on its own ---------------------------------------------------

InitScanEngine ==
  /\ ScannerOff
  /\ impl = "core"
  /\ RingInit
  /\ EngineInit
  /\ DspInit
  /\ BanksInit
  /\ FirIdle
  /\ LpIdle
  /\ SeInit
  /\ RxIdle

NextScanEngine ==
  \/ se_start
  \/ se_stop
  \/ \E level \in SmeterInputs, tune_ok \in BOOLEAN : step_once(level, tune_ok)
  \/ se_tick

SpecScanEngine == InitScanEngine /\ [][NextScanEngine]_vars

\* ---- the byte queue and its readers on their own ------------------------------

InitRx ==
  /\ ScannerOff
  /\ impl = "core"
  /\ RingInit
  /\ EngineInit
  /\ DspInit
  /\ BanksInit
  /\ FirIdle
  /\ LpIdle
  /\ SeIdle
  /\ RxInit

StreamThread(p) == strm_check(p) \/ strm_get(p) \/ strm_out(p)

NextRx ==
  \/ _rx_cb
  \/ rx_start
  \/ rx_stop
  \/ \E p \in StreamIds : StreamThread(p)

SpecRx == InitRx /\ [][NextRx]_vars

\* every loop thread gets to run; the radio and the callers are not forced
FairRx == SpecRx /\ \A p \in StreamIds : WF_vars(StreamThread(p))

\* ==== properties =============================================================

\* C1: at the end of a visit whose tune succeeded, the worker has armed a
\* recording and asked the manager to start audio exactly when the measured
\* level was >= the squelch; below the squelch it returned at once, with
\* nothing armed and no audio running.
C1_SquelchGate ==
  \A i \in Workers :
    LET r == w[i]
    IN /\ r.pc \in {"w_arm", "w_audio", "w_wait", "w_stopaudio"}
            => r.level >= SquelchDb
       /\ (r.pc = "w_ret" /\ r.tuneOk)
            => /\ (r.hArm /\ r.hReq) <=> (r.level >= SquelchDb)
               /\ r.level < SquelchDb => (~r.hArm /\ ~r.hReq /\ ~armed
                                           /\ ~audioOn)

C1_Witness ==
  \E i \in Workers :
    /\ w[i].pc = "w_ret" /\ w[i].tuneOk
    /\ w[i].level = SquelchDb /\ w[i].hArm /\ w[i].hReq

\* C2: a recorder comes into being only in the open step of _on_audio, which
\* is reached only by a block received while armed; the arming step leaves
\* self._rec None and creates no file.
C2_LazyOpen ==
  [][ /\ (rec = None /\ rec' # None) => (tpc = "t_open" /\ tpc' = "t_write")
      /\ ~(files' \subseteq files) => tpc = "t_open"
      /\ \A i \in Workers :
           (w[i].pc = "w_arm" /\ w'[i].pc = "w_audio")
             => (armed' /\ rec' = None /\ files' = {}) ]_vars

C2_Witness == rec # None /\ armed /\ rec = armed_path /\ tpc = "t_write"

C4_ClipEnds ==
  (armed /\ rec # None /\ armed_until = 0)
    ~> (rec = None /\ ~audioOn /\ \A i \in Workers : w[i].pc # "w_wait")

\* the engine at rest
Quiescent ==
  /\ \A i \in Workers : ~Live(w[i])
  /\ rec = None
  /\ ~armed
  /\ ~audioOn
  /\ ~tap
  /\ ~is_running

\* C5: if stop() has been called and start() is not called again, the engine
\* ends up, for good, with every scan worker terminated, no recorder, nothing
\* armed, audio stopped, the tap cleared and is_running false.
C5_StopQuiesces == (<>[]stop_evt) => (<>[]Quiescent)

C5_Witness ==
  /\ stop_evt /\ Quiescent /\ ui = "idle"
  /\ \E i \in Workers : w[i].pc = "done" /\ w[i].why = "stop"

\* the thread is between the while of line 223 and the finally of line 281
InLoop(r) ==
  r.pc \in {"w_pass", "w_fbank", "w_fitem", "w_rbank", "w_rstep", "w_endpass",
            "w_tune", "w_level", "w_arm", "w_audio", "w_wait", "w_stopaudio",
            "w_ret"}

\* C6: across start() and stop() calls, no two scan workers are inside the
\* scan loop at the same time.
C6_SingleWorker == Cardinality({i \in Workers : InLoop(w[i])}) <= 1

RECURSIVE FreqItems(_)
FreqItems(banks) ==
  IF banks = << >> THEN << >>
  ELSE (IF Head(banks).active THEN Head(banks).items ELSE << >>)
         \o FreqItems(Tail(banks))

RECURSIVE Steps(_, _, _)
Steps(f, stop, step) ==
  IF f > stop THEN << >> ELSE << f >> \o Steps(f + step, stop, step)

RECURSIVE RangeSteps(_)
RangeSteps(banks) ==
  IF banks = << >> THEN << >>
  ELSE (IF Head(banks).active
          THEN Steps(Head(banks).start, Head(banks).stop, Head(banks).step)
          ELSE << >>)
         \o RangeSteps(Tail(banks))

ExpectedPass(filt) ==
  (IF filt \in {"ALL", "FREQ"} THEN FreqItems(store.freq) ELSE << >>)
    \o (IF filt \in {"ALL", "RANGE"} THEN RangeSteps(store.range) ELSE << >>)

Elems(s) == {s[k] : k \in 1..Len(s)}

C9_Wraparound ==
  \A i \in Workers :
    LET r == w[i]
        E == ExpectedPass(r.filt0)
    IN (loopForever /\ r.filt0 # "")
         => /\ r.visits # << >> => E # << >>
            /\ \A k \in 1..Len(r.visits) :
                 r.visits[k] = E[((k - 1) % Len(E)) + 1]

C9_Witness ==
  \E i \in Workers :
    /\ loopForever /\ quiet
    /\ ExpectedPass(w[i].filt0) = << 1, 2 >>
    /\ Len(w[i].visits) >= 3
    /\ w[i].visits[1] = 1 /\ w[i].visits[2] = 2 /\ w[i].visits[3] = 1

\* C10: with loop disabled, a worker thread that has ended without a stop
\* request cutting it short has tuned exactly one pass (none when no active
\* bank matches the filter) and has left is_running false, audio stopped and
\* the tap cleared.
C10_OnePassThenStop ==
  \A i \in Workers :
    LET r == w[i]
    IN (~loopForever /\ r.pc \in {"done", "crashed"} /\ r.clean
          /\ r.why # "stop")
         => /\ r.filt0 # ""
            /\ r.visits = ExpectedPass(r.filt0)
            /\ ~is_running
            /\ ~audioOn
            /\ ~tap

\* what the claim expects of latest(n), n > 0: the last min(n, capacity)
\* samples pushed
LastPushed(h, n) == LastK(h, Min(n, RingCap))

\* the same over an array that held zeros before the first push
LastPadded(h, n) == LastK(Zeros(RingCap) \o h, Min(n, RingCap))

\* a latest() call of consumer r returns in this step
Returns(r) == rd[r].pc = "r_lock" /\ rd'[r].pc = "idle"

\* C11 as stated: for every n > 0, latest(n) returns exactly the last
\* min(n, capacity) samples pushed, oldest first.
C11_LatestExact ==
  [][ \A r \in Readers :
        (Returns(r) /\ rd[r].req > 0)
          => ret'.out = LastPushed(hist, rd[r].req) ]_vars

\* C11 amended: for every n > 0, latest(n) returns min(n, capacity) samples,
\* oldest first: the last min(n, capacity) samples pushed once that many have
\* been pushed, and before that all the samples pushed preceded by zeros.
C11_LatestPadded ==
  [][ \A r \in Readers :
        (Returns(r) /\ rd[r].req > 0)
          => /\ ret'.out = LastPadded(hist, rd[r].req)
             /\ Len(hist) >= Min(rd[r].req, RingCap)
                  => ret'.out = LastPushed(hist, rd[r].req) ]_vars

\* a window of two samples that wraps around the end of a full array
C11_Witness ==
  /\ ret.by # 0 /\ ret.req = 2
  /\ Len(hist) = RingCap /\ wpos = 1
  /\ ret.out = LastK(hist, 2)
  /\ ret.out[1] # ret.out[2]

\* C12: latest(n) returns an empty result for every n <= 0 and never more
\* than capacity samples.
C12_EmptyForNonPositive ==
  ret.by # 0 => /\ ret.req <= 0 => ret.out = << >>
                /\ Len(ret.out) <= RingCap

\* what latest(n) gives on the array left by the pushes h, for any n
Window(h, n) ==
  LastK(Zeros(RingCap) \o h, ((Min(n, RingCap) - 1) % RingCap) + 1)

\* C13: a latest() call that overlaps a push returns what it would return
\* either before that push or after it, never a mixture of the two.
C13_NoTornRead ==
  [][ \A r \in Readers :
        Returns(r)
          => \/ ret'.out = Window(hist, rd[r].req)
             \/ /\ pw.pc # "idle"
                /\ ret'.out = Window(hist \o pw.iq, rd[r].req) ]_vars

\* a call has returned while a push was under way and a second consumer was
\* inside latest(), and the push will change what the call returns
C13_Witness ==
  /\ ret.by # 0 /\ ret.req > 0
  /\ pw.pc = "p_lock"
  /\ \E r \in Readers : r # ret.by /\ rd[r].pc = "r_lock"
  /\ ret.out = Window(hist, ret.req)
  /\ ret.out # Window(hist \o pw.iq, ret.req)

\* the step in which set_mode gives up on the new pipeline and puts the old
\* one back (audio_engine.py lines 231-233)
SetModeFails ==
  /\ caller.pc = "m_build"
  /\ caller'.pc = "idle"
  /\ eng'.stream = caller.old

StartSucceeds ==
  /\ caller.pc = "s_launch"
  /\ caller'.pc = "idle"

\* C15: when start succeeds, every pending parameter the new pipeline
\* supports (drive is one) has the user's pending value on it.
C15_PendingApplied ==
  [][ (StartSucceeds /\ eng.pending.drive # 0)
        => pipes'[caller.old].drive = eng.pending.drive ]_vars

\* the pipelines whose loop thread is taking or demodulating IQ chunks
Consuming == {p \in PipeIds : pipes[p].loop \in {"l_get", "l_out"}}

\* C16: at most one pipeline's worker loop consumes IQ at any time, across
\* start, stop and set_mode.
C16_OneConsumer ==
  Cardinality(Consuming) <= 1

\* the step in which pipeline p hands a block to its callback
Delivers(p) ==
  /\ pipes[p].loop = "l_out"
  /\ pipes'[p].loop # "l_out"

\* C17: an exception raised by the tap callback is caught and ignored, and
\* the loop that called it keeps running.
C17_CallbackContained ==
  [][ \A p \in PipeIds : Delivers(p) => pipes'[p].loop # "dead" ]_vars

\* C18: each block is delivered to the callback registered last with
\* set_on_audio, and to none once that is None, also by a pipeline that was
\* already running when set_on_audio was called.
C18_LatestTap ==
  [][ \A p \in PipeIds : Delivers(p) => pipes[p].cb = eng.cb ]_vars

\* C19: when the worker of the current, running pipeline has failed with an
\* exception, the reference to the current pipeline is eventually None.
C19_FailureClears ==
  (\E p \in PipeIds :
     pipes[p].loop = "dead" /\ pipes[p].running /\ eng.stream = p)
    ~> (eng.stream = 0)

\* the step of the failure handler of the thread started for pipeline p
HandlerStep(p) ==
  /\ runs[p] = "raised"
  /\ runs'[p] = "ended"

\* C20: the failure handler of an earlier pipeline's worker never clears the
\* reference to a later pipeline, and the reference is None only if no
\* pipeline the engine started is still running.
C20_ReferenceTracksRunning ==
  [][ /\ \A p \in PipeIds : HandlerStep(p) => eng.stream \in {0, p}
      /\ eng'.stream = 0 => \A p \in PipeIds : ~pipes'[p].running ]_vars

\* the step in which start raises: one of the driver checks or _create_stream
StartFails ==
  /\ caller.pc = "s_create"
  /\ caller'.pc = "idle"

\* C21: when start fails (no radio, no get_audio_queue, a mode it cannot
\* build) the error reaches the caller at once, and afterwards no pipeline is
\* current and none is running.
C21_FailedStartClean ==
  [][ StartFails => /\ eng'.stream = 0
                    /\ \A p \in PipeIds : ~pipes'[p].running ]_vars

\* the first half of stop(): the pipeline that is current is told to stop
StopTells ==
  /\ caller.pc = "idle"
  /\ caller'.pc = "stop_end"

\* the second half of stop(), when stop() was called on its own
StopReturns ==
  /\ caller.pc = "stop_end"
  /\ caller.op = "stop"
  /\ caller'.pc = "idle"

Merge(old, new) ==
  [drive |-> IF new.drive # 0 THEN new.drive ELSE old.drive,
   chan |-> old.chan \/ new.chan]

\* the step in which update_dsp_params takes its arguments
UpdateCalled ==
  /\ caller.pc = "idle"
  /\ caller'.pc = "u_forward"

C24_VolumeForwarded ==
  /\ eng.vol \in 0..10
  /\ (caller.pc = "idle" /\ eng.stream # 0) => pipes[eng.stream].vol = eng.vol

\* set_volume was called with a value above 1 while a pipeline was current,
\* and an earlier pipeline still has another volume
C24_Witness ==
  /\ caller.pc = "idle"
  /\ eng.stream # 0
  /\ eng.vol = 10
  /\ pipes[eng.stream].running
  /\ \E p \in PipeIds : pipes[p].made /\ pipes[p].vol \notin {eng.vol, PipeVolume}

\* the attributes that are a cutoff or a tap count
FilterKeys(kind) ==
  IF kind = "NFM"
    THEN {"chan_cutoff_hz", "aud_cutoff_hz", "chan_taps", "aud_taps"}
    ELSE {"lpf_hz"}

\* the keys of the call p that would change an attribute of d
Changing(d, p) == {k \in DOMAIN p \cap Attrs(d.kind) : p[k] # d.attr[k]}

\* C25: an update_params call that changes no cutoff and no tap count (only
\* drive, tau, the high-pass corner, the sideband or the volume) leaves the
\* coefficients and the tail of every filter as they are, in every variant.
C25_RebuildOnlyOnFilterChange ==
  [][ (last'.op = "update" /\ Changing(dm, last'.params) \cap FilterKeys(dm.kind) = {})
        => (dm'.fir = dm.fir /\ dm'.zi = dm.zi) ]_vars

\* C26: an update_params call whose values are the current ones rebuilds no
\* filter and resets no tail.
C26_NoOpUpdate ==
  [][ (last'.op = "update" /\ Changing(dm, last'.params) = {})
        => (dm'.fir = dm.fir /\ dm'.zi = dm.zi) ]_vars

\* the audio cutoff of a narrow-band pipeline was given again with the value
\* it has, while the tail of that filter held samples
C26_Witness ==
  /\ dm.kind = "NFM"
  /\ last.op = "update"
  /\ last.noop
  /\ "aud_cutoff_hz" \in DOMAIN last.params
  /\ dm.zi["aud"] # Zeros(Len(dm.zi["aud"]))

\* C27: upsert_bank of a bank without an id, when 20 banks of that kind are
\* stored, raises and leaves the list of that kind as it was.
C27_CreationBeyondLimitFails ==
  [][ (/\ bank_call'.op = "upsert"
       /\ bank_call'.id = NoId
       /\ Len(bank_data[bank_call'.kind]) = BankLimit)
        => /\ bank_call'.err
           /\ bank_data'[bank_call'.kind] = bank_data[bank_call'.kind] ]_vars

\* a creation has just been refused with 20 banks of its kind stored
C27_Witness ==
  /\ bank_call.op = "upsert"
  /\ bank_call.id = NoId
  /\ bank_call.err
  /\ Len(bank_data[bank_call.kind]) = BankLimit

\* C28: from an empty store, whatever the calls and the dictionaries, with or
\* without an id, each kind holds at most 20 banks.
C28_AtMostLimit ==
  \A kind \in BankKinds : Len(bank_data[kind]) <= BankLimit

\* C29: filtering an input in two consecutive blocks, the second with the
\* tail the first returned, gives the output of filtering it in one call;
\* each call returns as many samples as it was given and a tail of
\* len(coeffs) - 1 samples.
C29_SplitEquivalence ==
  fir.pc = "done" =>
    /\ ~fir.whole.err /\ ~fir.first.err /\ ~fir.second.err
    /\ fir.first.y \o fir.second.y = fir.whole.y
    /\ Len(fir.whole.y) = Len(fir.in.x)
    /\ Len(fir.first.y) = fir.in.k
    /\ Len(fir.second.y) = Len(fir.in.x) - fir.in.k
    /\ \A r \in {fir.whole, fir.first, fir.second} :
         Len(r.zi) = Len(fir.in.h) - 1

\* C30: the designer returns the coefficients of the cutoff clamped into
\* (0, 0.49 * sample_rate], and they are finite.  The smallest cutoff above 0
\* is one hundredth of a hertz.
C30_CutoffClamped ==
  LET clamped == IF lp.cutoff_hz < 1 THEN 1
                 ELSE IF 100 * lp.cutoff_hz > 49 * lp.fs
                   THEN (49 * lp.fs) \div 100
                 ELSE lp.cutoff_hz
  IN  lp.num_taps # 0 =>
        /\ ~lp.out.nan
        /\ lp.out = fir_lowpass(lp.num_taps, clamped, lp.fs)

\* a call of step_once that measured a level
Measured == se_obs'.op = "step_once" /\ se_obs'.measured

\* the frequency after hz in the scan of cfg
NextHz(cfg, hz) ==
  IF hz + cfg.step_hz > cfg.end_hz THEN cfg.start_hz ELSE hz + cfg.step_hz

\* C31: a step_once in state SCAN enters HOLD at the current frequency when
\* the level it measures is at or above squelch_db, and otherwise stays in
\* SCAN one step further; between two states HOLD the frequency is the same.
C31_ScanStep ==
  [][/\ (Measured /\ se.state = "SCAN") =>
          IF se_obs'.level >= se.cfg.squelch_db
            THEN se'.state = "HOLD" /\ se'.current_hz = se.current_hz
            ELSE se'.state = "SCAN"
                 /\ se'.current_hz = NextHz(se.cfg, se.current_hz)
     /\ (se.state = "HOLD" /\ se'.state = "HOLD") =>
          se'.current_hz = se.current_hz]_vars

C31_Witness ==
  /\ se.state = "HOLD"
  /\ se.current_hz > se.cfg.start_hz
  /\ se_obs.op = "step_once"
  /\ se_obs.level >= se.cfg.squelch_db

\* C32: a step_once takes the engine from HOLD to SCAN only when the level
\* it measures is below squelch_db and hold_ms have passed since a level at
\* or above squelch_db was last measured; a step in HOLD with such a level
\* restarts the window; leaving HOLD moves the frequency one step on.
C32_HoldWindow ==
  [][(Measured /\ se.state = "HOLD") =>
       /\ se'.state = "SCAN" =>
            /\ se_obs'.level < se.cfg.squelch_db
            /\ se_obs.heard # NoTs
            /\ se_obs.heard >= se.cfg.hold_ms
            /\ se'.current_hz = NextHz(se.cfg, se.current_hz)
       /\ se_obs'.level >= se.cfg.squelch_db =>
            se'.state = "HOLD" /\ se'._last_signal_ts = 0
       /\ (se_obs'.level < se.cfg.squelch_db /\ se_obs.heard < se.cfg.hold_ms) =>
            se'.state = "HOLD"]_vars

C32_Witness ==
  /\ se.state = "SCAN"
  /\ se.cfg.hold_ms > 0
  /\ se_obs.op = "step_once"
  /\ se_obs.measured
  /\ se_obs.heard = se.cfg.hold_ms
  /\ se.current_hz > se.cfg.start_hz

\* C39: with start_hz <= end_hz and step_hz > 0 the current frequency is
\* within the range, and running is true exactly in the states SCAN and HOLD.
C39_InRange ==
  (se.cfg.start_hz <= se.cfg.end_hz /\ se.cfg.step_hz > 0) =>
    /\ se.cfg.start_hz <= se.current_hz
    /\ se.current_hz <= se.cfg.end_hz
    /\ se.running <=> se.state \in {"SCAN", "HOLD"}

C39_Witness ==
  /\ se.cfg.start_hz < se.cfg.end_hz
  /\ se_obs.op = "step_once"
  /\ se_obs.measured
  /\ se_obs.level < se.cfg.squelch_db
  /\ se.current_hz = se.cfg.start_hz
  /\ se.state = "SCAN"

\* a recorder is open for the current arm and its deadline is ahead
Recording == rec # None /\ armed /\ armed_until > 0

\* C33: while a recording is open with its deadline ahead and no stop has
\* been requested, the recorder is closed only by a write that fails, and a
\* block that arrives is written to it.
C33_OpenUntilDeadline ==
  [][(Recording /\ ~stop_evt) =>
       /\ rec' # rec => (tpc = "t_write" /\ tpc' = "idle")
       /\ (tpc = "idle" /\ tpc' # "idle") => tpc' = "t_write"
       /\ (tpc = "t_write" /\ tpc' = "t_deadline") => rec' = rec
       /\ (tpc = "t_deadline" /\ tpc' = "idle") => rec' = rec]_vars

\* C34: a pipeline on which stop() was called does not keep its loop going,
\* whether or not a chunk arrives: it cannot stay stopped with its loop alive
\* for ever (a stopped pipeline is never started again here); and it hands
\* out at most one block after the stop.
C34_StopEndsLoop ==
  /\ [](\A p \in StreamIds : strm[p].late <= 1)
  /\ \A p \in StreamIds :
       []<>(\/ ~strm[p].made
            \/ strm[p].running
            \/ strm[p].loop \in {"ended", "dead"})

C34_Witness ==
  \E p \in StreamIds :
    /\ strm[p].loop = "l_check"
    /\ ~strm[p].running
    /\ strm[p].late = 1
    /\ byte_q = << >>

\* C38: a block a pipeline hands out is made from a chunk captured after
\* the tune of the start() that built the pipeline.
C38_FreshChunks ==
  \A p \in StreamIds : strm[p].block # 0 => strm[p].block >= p

\* C35: while the cancellation flag is set, no worker arms a recording and
\* none asks the manager to start audio.
C35_NoArmAfterStop ==
  [][stop_evt =>
       \A i \in Workers :
         /\ ~(w[i].pc = "w_arm" /\ w'[i].pc = "w_audio")
         /\ ~(w[i].pc = "w_audio" /\ w'[i].pc # "w_audio")]_vars

\* C36: when a worker thread has ended, in whatever way, and none is alive,
\* is_running is false.
C36_EndedMeansNotRunning ==
  ( /\ \E i \in Workers : w[i].pc \in {"done", "crashed"}
    /\ \A i \in Workers : ~Live(w[i]) )
    => ~is_running

\* C37: a recorder is opened only while a recording is armed, at the armed
\* path, and that path is the one of the frequency a worker is visiting.
C37_OpenAtArmedPath ==
  [][(rec = None /\ rec' # None) =>
       /\ armed
       /\ rec' = armed_path
       /\ \E i \in Workers :
            /\ w[i].pc \in {"w_audio", "w_wait", "w_stopaudio", "w_ret"}
            /\ rec' = << w[i].f >>]_vars

====
